---------------------------- MODULE Spec2Model ----------------------------
(***************************************************************************)
(* A model of laebelmaker: the rule model (laebelmaker/datatypes.py) and   *)
(* the label generator (laebelmaker/label.py).                             *)
(*                                                                         *)
(* Python strings are TLA+ strings: an f-string is a concatenation (\o),   *)
(* str(int) is ToString, `in` on strings is Contains.  The grave accent    *)
(* that Rule.__str__ puts around content cannot be written in a TLA+       *)
(* string literal; BT stands for it.                                       *)
(*                                                                         *)
(* A call that raises is a record with exc (the exception class) and msg;  *)
(* a call that returns has exc = "".                                       *)
(***************************************************************************)
EXTENDS Integers, Sequences, FiniteSets, TLC

VARIABLES
    config,      \* the ServiceConfig object handed to the label generator
    result,      \* [enable -> outcome of the latest gen_simple_label_set_for_service(config, enable)]
    previous,    \* [enable -> outcome of the call before the latest one]
    rule_call,   \* the latest Rule(typ, *content) call: arguments and outcome
    combined_call,    \* a CombinedRule(*args) call: arguments and outcome
    from_string_call, \* a CombinedRule.from_string(string) call: argument and outcome
    traefik_config,   \* the TraefikConfig profile the caller attached to config, or NoProfile
    fill_call,   \* a fill_missing_info(config, attr_name, value) call: arguments, the
                 \* answers the user will type, and outcome
    pass_call,   \* a gen_label_set_from_limited_info(config) call: its position in the
                 \* loop over the fields, the prompts shown so far, and outcome
    build_call,  \* a _build_traefik_config_from_dict(data) call: argument and outcome
    load_call,   \* a load_traefik_config(path) call: the file, and outcome
    print_call,  \* a print_labels(labels, formatter) call: arguments and the lines printed
    compose_call,  \* a gen_label_set_from_compose(path) call: the file, and outcome
    main_call,   \* a run of main(): the command line, its position, and what it did
    loader,      \* a Loader used as a context manager: the two threads and the terminal
    files_call   \* a labels_from_compose_files(files) call: position in the loop and outcome

\* the variables of the label generator, the rules and fill_missing_info
corevars == <<config, result, previous, rule_call, combined_call, from_string_call, traefik_config, fill_call>>

\* the variables of the passes, the loaders and the command line
clivars == <<pass_call, build_call, load_call, print_call, compose_call, main_call, loader, files_call>>

vars == <<corevars, clivars>>

---------------------------------------------------------------------------
(* Strings *)

\* the character Rule.__str__ wraps content in
BT == "'"

\* Python: sub in s
RECURSIVE Contains(_, _)
Contains(s, sub) ==
    IF Len(s) < Len(sub) THEN FALSE
    ELSE IF SubSeq(s, 1, Len(sub)) = sub THEN TRUE
    ELSE Contains(SubSeq(s, 2, Len(s)), sub)

\* Python: s.startswith(prefix)
StartsWith(s, prefix) ==
    Len(s) >= Len(prefix) /\ SubSeq(s, 1, Len(prefix)) = prefix

\* Python: s.endswith(suffix)
EndsWith(s, suffix) ==
    Len(s) >= Len(suffix) /\ SubSeq(s, Len(s) - Len(suffix) + 1, Len(s)) = suffix

\* Python: sep.join(seq)
RECURSIVE Join(_, _)
Join(seq, sep) ==
    IF Len(seq) = 0 THEN ""
    ELSE IF Len(seq) = 1 THEN seq[1]
    ELSE seq[1] \o sep \o Join(Tail(seq), sep)

\* Python: s.find(c, i - 1) + 1 for a one-character c (0 when absent)
RECURSIVE Find(_, _, _)
Find(s, c, i) ==
    IF i > Len(s) THEN 0
    ELSE IF SubSeq(s, i, i) = c THEN i
    ELSE Find(s, c, i + 1)

\* Python: s.split(sep) for a one-character sep
RECURSIVE Split(_, _)
Split(s, sep) ==
    IF Find(s, sep, 1) = 0 THEN <<s>>
    ELSE <<SubSeq(s, 1, Find(s, sep, 1) - 1)>>
         \o Split(SubSeq(s, Find(s, sep, 1) + 1, Len(s)), sep)

\* Python: s.lower(), for the ASCII letters
RECURSIVE Lower(_)
Lower(s) ==
    IF Len(s) = 0 THEN ""
    ELSE (IF Find("ABCDEFGHIJKLMNOPQRSTUVWXYZ", SubSeq(s, 1, 1), 1) = 0
          THEN SubSeq(s, 1, 1)
          ELSE SubSeq("abcdefghijklmnopqrstuvwxyz",
                      Find("ABCDEFGHIJKLMNOPQRSTUVWXYZ", SubSeq(s, 1, 1), 1),
                      Find("ABCDEFGHIJKLMNOPQRSTUVWXYZ", SubSeq(s, 1, 1), 1)))
         \o Lower(SubSeq(s, 2, Len(s)))

\* s is a run of decimal digits, at least one
RECURSIVE IsDigits(_)
IsDigits(s) ==
    /\ Len(s) > 0
    /\ Find("0123456789", SubSeq(s, 1, 1), 1) # 0
    /\ (Len(s) = 1 \/ IsDigits(SubSeq(s, 2, Len(s))))

\* the number a run of decimal digits writes, acc being the digits read so far
RECURSIVE DigitsValue(_, _)
DigitsValue(s, acc) ==
    IF Len(s) = 0 THEN acc
    ELSE DigitsValue(SubSeq(s, 2, Len(s)),
                     acc * 10 + (Find("0123456789", SubSeq(s, 1, 1), 1) - 1))

\* Python: int(s) succeeds (a decimal literal with an optional sign; no
\* surrounding blanks or underscores among the answers modelled)
IsIntLiteral(s) ==
    IF Len(s) > 0 /\ SubSeq(s, 1, 1) \in {"-", "+"}
    THEN IsDigits(SubSeq(s, 2, Len(s)))
    ELSE IsDigits(s)

\* Python: int(s) for such a literal
IntOf(s) ==
    IF SubSeq(s, 1, 1) = "-" THEN 0 - DigitsValue(SubSeq(s, 2, Len(s)), 0)
    ELSE IF SubSeq(s, 1, 1) = "+" THEN DigitsValue(SubSeq(s, 2, Len(s)), 0)
    ELSE DigitsValue(s, 0)

---------------------------------------------------------------------------
(* Python values of several types: t is the type, and the field of that type
   holds the value *)

PyStr(s) == [t |-> "str", s |-> s, i |-> 0, b |-> FALSE]
PyInt(i) == [t |-> "int", s |-> "", i |-> i, b |-> FALSE]
PyBool(b) == [t |-> "bool", s |-> "", i |-> 0, b |-> b]

\* Python truth value of a str, int or bool
PyTruthy(v) ==
    CASE v.t = "str" -> v.s # ""
      [] v.t = "int" -> v.i # 0
      [] v.t = "bool" -> v.b

\* Python: str(v) of a str, int or bool
PyToStr(v) ==
    CASE v.t = "str" -> v.s
      [] v.t = "int" -> ToString(v.i)
      [] v.t = "bool" -> IF v.b THEN "True" ELSE "False"

\* the value of a type that is false: "", 0, False
PyEmpty(typ) ==
    CASE typ = "str" -> PyStr("")
      [] typ = "int" -> PyInt(0)
      [] typ = "bool" -> PyBool(FALSE)

\* Python: typ(False), what input_item converts an empty answer to
PyOfFalse(typ) ==
    CASE typ = "str" -> PyStr("False")
      [] typ = "int" -> PyInt(0)
      [] typ = "bool" -> PyBool(FALSE)

---------------------------------------------------------------------------
(* Exceptions *)

\* the classes an exception class derives from (itself included)
Bases(exc) ==
    CASE exc = "AssertionError" -> {"AssertionError", "Exception"}
      [] exc = "ValueError" -> {"ValueError", "Exception"}
      [] exc = "TypeError" -> {"TypeError", "Exception"}
      [] exc = "UnknownRuleTypeException" -> {"UnknownRuleTypeException", "Exception"}
      [] exc = "NoInformationException" -> {"NoInformationException", "Exception"}
      [] exc = "IndexError" -> {"IndexError", "LookupError", "Exception"}
      [] exc = "EOFError" -> {"EOFError", "Exception"}
      [] OTHER -> {}

\* Python: isinstance(e, cls), as pytest.raises(cls) tests it
IsInstance(exc, cls) == cls \in Bases(exc)

---------------------------------------------------------------------------
(* Rule, CombinedRule *)

None == [cls |-> "NoneType", typ |-> "", content |-> <<>>, rules |-> <<>>, operators |-> <<>>]

ALLOWED_RULES == {"Host", "Path", "PathPrefix", "Headers"}

\* a Rule instance with its two attributes
RuleObject(typ, content) ==
    [cls |-> "Rule", typ |-> typ, content |-> content, rules |-> <<>>, operators |-> <<>>]

\* a CombinedRule instance with its two attributes
CombinedRuleObject(rules, operators) ==
    [cls |-> "CombinedRule", typ |-> "", content |-> <<>>, rules |-> rules, operators |-> operators]

Raised(exc, msg) == [exc |-> exc, msg |-> msg, obj |-> None]
Constructed(obj) == [exc |-> "", msg |-> "", obj |-> obj]

\* Rule.__init__ with the kind checked after the content (the mutant of Rule_init)
Rule_init_ContentFirst(typ, content) ==
    IF ~(Len(content) > 0)
    THEN Raised("AssertionError", "A given rule must have content")
    ELSE IF typ \notin ALLOWED_RULES
    THEN Raised("UnknownRuleTypeException", "Invalid rule or not implemented yet")
    ELSE IF typ = "Headers" /\ ~(Len(content) = 2)
    THEN Raised("AssertionError", "Headers rule must have only key and value")
    ELSE Constructed(RuleObject(typ, content))

\* Rule(typ, *content)
Rule_init(typ, content) ==
    IF typ \notin ALLOWED_RULES
    THEN Raised("UnknownRuleTypeException", "Invalid rule or not implemented yet")
    ELSE IF ~(Len(content) > 0)
    THEN Raised("AssertionError", "A given rule must have content")
    ELSE IF typ = "Headers" /\ ~(Len(content) = 2)
    THEN Raised("AssertionError", "Headers rule must have only key and value")
    ELSE Constructed(RuleObject(typ, content))

\* Rule.__str__
Rule_str(rule) ==
    rule.typ \o "(" \o (BT \o Join(rule.content, BT \o ", " \o BT) \o BT) \o ")"

\* str(rule): Rule.__str__, CombinedRule.__str__ or str(None)
RECURSIVE str(_)
RECURSIVE CombinedRule_str_loop(_, _, _)
\* the for loop of CombinedRule.__str__ over zip(self.rules[1:], self.operators)
CombinedRule_str_loop(full_rule, rules, operators) ==
    IF Len(rules) = 0 \/ Len(operators) = 0 THEN full_rule
    ELSE CombinedRule_str_loop(full_rule \o (" " \o operators[1] \o " ") \o str(rules[1]),
                               Tail(rules), Tail(operators))

\* CombinedRule.__str__ zipping self.rules, not self.rules[1:], with the
\* operators (the mutant of CombinedRule_str)
CombinedRule_str_ZipFromFirst(rule) ==
    "(" \o CombinedRule_str_loop(str(rule.rules[1]), rule.rules, rule.operators) \o ")"

\* CombinedRule.__str__ (rules non-empty)
CombinedRule_str(rule) ==
    "(" \o CombinedRule_str_loop(str(rule.rules[1]), Tail(rule.rules), rule.operators) \o ")"

str(rule) ==
    IF rule.cls = "CombinedRule" THEN CombinedRule_str(rule)
    ELSE IF rule.cls = "Rule" THEN Rule_str(rule)
    ELSE "None"

\* Python truth value of an Optional[Rule]: Rule defines neither __bool__ nor __len__
Truthy(rule) == rule.cls # "NoneType"

\* an argument of CombinedRule(*args): a Rule (or CombinedRule) object, a str
\* or an int
ArgRule(rule) == [t |-> "Rule", s |-> "", i |-> 0, rule |-> rule]
ArgStr(s) == [t |-> "str", s |-> s, i |-> 0, rule |-> None]
ArgInt(i) == [t |-> "int", s |-> "", i |-> i, rule |-> None]

\* the for loop of CombinedRule.__init__: the object built from the arguments
\* not yet visited, or the TypeError
RECURSIVE CombinedRule_init_loop(_, _, _)
CombinedRule_init_loop(args, operators, rules) ==
    IF Len(args) = 0 THEN Constructed(CombinedRuleObject(rules, operators))
    ELSE IF args[1].t = "str"
    THEN CombinedRule_init_loop(Tail(args), Append(operators, args[1].s), rules)
    ELSE IF args[1].t = "Rule"
    THEN CombinedRule_init_loop(Tail(args), operators, Append(rules, args[1].rule))
    ELSE Raised("TypeError", "CombinedRule args must be either strings or Rules")

\* the loop with an argument of another type passed over
RECURSIVE CombinedRule_init_loop_SkipOthers(_, _, _)
CombinedRule_init_loop_SkipOthers(args, operators, rules) ==
    IF Len(args) = 0 THEN Constructed(CombinedRuleObject(rules, operators))
    ELSE IF args[1].t = "str"
    THEN CombinedRule_init_loop_SkipOthers(Tail(args), Append(operators, args[1].s), rules)
    ELSE IF args[1].t = "Rule"
    THEN CombinedRule_init_loop_SkipOthers(Tail(args), operators, Append(rules, args[1].rule))
    ELSE CombinedRule_init_loop_SkipOthers(Tail(args), operators, rules)

\* CombinedRule(*args) without the TypeError (the mutant of CombinedRule_init)
CombinedRule_init_SkipOthers(args) == CombinedRule_init_loop_SkipOthers(args, <<>>, <<>>)

\* CombinedRule(*args)
CombinedRule_init(args) == CombinedRule_init_loop(args, <<>>, <<>>)

\* CombinedRule.from_string that combines whenever there is a domain, without
\* looking at the path (the mutant of from_string)
from_string_NoPathCheck(string) ==
    IF Len(Split(string, "/")) = 1
    THEN Rule_init("Host", <<string>>)
    ELSE IF Len(Split(string, "/")) = 2 /\ Split(string, "/")[1] # ""
    THEN CombinedRule_init(<<ArgRule(Rule_init("Host", <<Split(string, "/")[1]>>).obj),
                             ArgStr("&&"),
                             ArgRule(Rule_init("PathPrefix", <<"/" \o Split(string, "/")[2]>>).obj)>>)
    ELSE IF Len(Split(string, "/")) = 2 /\ Split(string, "/")[2] # ""
    THEN Rule_init("PathPrefix", <<"/" \o Split(string, "/")[2]>>)
    ELSE Raised("NoInformationException", "Invalid hostname and context path definition")

\* CombinedRule.from_string splitting at the first "/" only, as
\* string.split("/", 1) would (the mutant of from_string)
from_string_SplitOnce(string) ==
    LET i == Find(string, "/", 1)
        domain == SubSeq(string, 1, i - 1)
        path == SubSeq(string, i + 1, Len(string))
    IN  IF i = 0 THEN Rule_init("Host", <<string>>)
        ELSE IF domain # "" /\ path # ""
        THEN CombinedRule_init(<<ArgRule(Rule_init("Host", <<domain>>).obj), ArgStr("&&"),
                                 ArgRule(Rule_init("PathPrefix", <<"/" \o path>>).obj)>>)
        ELSE IF domain # "" THEN Rule_init("Host", <<domain>>)
        ELSE IF path # "" THEN Rule_init("PathPrefix", <<"/" \o path>>)
        ELSE Raised("NoInformationException", "Invalid hostname and context path definition")

\* CombinedRule.from_string(string)
from_string(string) ==
    LET url_parts == Split(string, "/")
        domain == url_parts[1]
        path == url_parts[2]
        domain_rule == Rule_init("Host", <<domain>>)
        context_rule == Rule_init("PathPrefix", <<"/" \o path>>)
    IN  IF Len(url_parts) = 1
        THEN Rule_init("Host", <<string>>)
        ELSE IF Len(url_parts) = 2 /\ domain # "" /\ path # ""
        THEN CombinedRule_init(<<ArgRule(domain_rule.obj), ArgStr("&&"), ArgRule(context_rule.obj)>>)
        ELSE IF Len(url_parts) = 2 /\ domain # ""
        THEN domain_rule
        ELSE IF Len(url_parts) = 2 /\ path # ""
        THEN context_rule
        ELSE Raised("NoInformationException", "Invalid hostname and context path definition")

---------------------------------------------------------------------------
(* ServiceConfig *)

\* the dataclass constructor, every field given
ServiceConfig(deploy_name, rule, url, port, https_enabled, https_redirection, web_entrypoint, websecure_entrypoint, tls_resolver) ==
    [deploy_name |-> deploy_name, rule |-> rule, url |-> url, port |-> port,
     https_enabled |-> https_enabled, https_redirection |-> https_redirection,
     web_entrypoint |-> web_entrypoint, websecure_entrypoint |-> websecure_entrypoint,
     tls_resolver |-> tls_resolver]

\* ServiceConfig(deploy_name): the dataclass defaults
ServiceConfigDefault(deploy_name) ==
    ServiceConfig(deploy_name, None, "", 0, FALSE, FALSE, "web", "websecure", "")

---------------------------------------------------------------------------
(* Label generator: gen_simple_label_set_for_service *)

ROUTER_PREFIX == "traefik.http.routers"
SERVICE_PREFIX == "traefik.http.services"

traefik_enable == "traefik.enable=true"

GenRaised(exc, msg) == [called |-> TRUE, exc |-> exc, msg |-> msg, name |-> "", label_set |-> <<>>]

\* the call has not been made
NotCalled == [called |-> FALSE, exc |-> "", msg |-> "", name |-> "", label_set |-> <<>>]

\* the enable directive emitted whatever the flag (the mutant of EnableLabels)
EnableLabels_Always(enable) == <<traefik_enable>>

\* label_set = []; if enable: label_set.append(traefik_enable())
EnableLabels(enable) == IF enable THEN <<traefik_enable>> ELSE <<>>

\* the router rule directive
RouterLabels(cfg) ==
    <<ROUTER_PREFIX \o "." \o cfg.deploy_name \o ".rule=" \o str(cfg.rule)>>

\* the redirect block with the middleware directives after the TLS ones
\* (the mutant of HttpsLabels)
HttpsLabels_TlsFirst(cfg) ==
    IF cfg.https_redirection
    THEN << ROUTER_PREFIX \o "." \o cfg.deploy_name \o ".entrypoints=" \o cfg.web_entrypoint,
            ROUTER_PREFIX \o "." \o cfg.deploy_name \o "-https.rule=" \o str(cfg.rule),
            ROUTER_PREFIX \o "." \o cfg.deploy_name \o "-https.entrypoints=" \o cfg.websecure_entrypoint,
            ROUTER_PREFIX \o "." \o cfg.deploy_name \o "-https.tls=true",
            ROUTER_PREFIX \o "." \o cfg.deploy_name \o "-https.tls.certresolver=" \o cfg.tls_resolver,
            ROUTER_PREFIX \o "." \o cfg.deploy_name \o ".middlewares=" \o (cfg.deploy_name \o "-redir"),
            "traefik.http.middlewares." \o (cfg.deploy_name \o "-redir") \o ".redirectscheme.scheme=https" >>
    ELSE <<>>

\* the redirect block emitted whenever a TLS resolver is configured (the
\* mutant of HttpsLabels for the HTTP-only case)
HttpsLabels_IfResolver(cfg) ==
    IF cfg.https_redirection \/ Len(cfg.tls_resolver) > 0
    THEN HttpsLabels_TlsFirst([cfg EXCEPT !.https_redirection = TRUE])
    ELSE <<>>

\* the block under `if config.https_redirection:` (its assert is in
\* gen_simple_label_set_for_service below)
HttpsLabels(cfg) ==
    IF cfg.https_redirection
    THEN << ROUTER_PREFIX \o "." \o cfg.deploy_name \o ".entrypoints=" \o cfg.web_entrypoint,
            ROUTER_PREFIX \o "." \o cfg.deploy_name \o "-https.rule=" \o str(cfg.rule),
            ROUTER_PREFIX \o "." \o cfg.deploy_name \o "-https.entrypoints=" \o cfg.websecure_entrypoint,
            ROUTER_PREFIX \o "." \o cfg.deploy_name \o ".middlewares=" \o (cfg.deploy_name \o "-redir"),
            "traefik.http.middlewares." \o (cfg.deploy_name \o "-redir") \o ".redirectscheme.scheme=https",
            ROUTER_PREFIX \o "." \o cfg.deploy_name \o "-https.tls=true",
            ROUTER_PREFIX \o "." \o cfg.deploy_name \o "-https.tls.certresolver=" \o cfg.tls_resolver >>
    ELSE <<>>

\* the port tested for truth instead of > 0 (the mutant of PortLabels)
PortLabels_Truthy(cfg) ==
    IF cfg.port # 0
    THEN <<SERVICE_PREFIX \o "." \o cfg.deploy_name \o ".loadbalancer.server.port=" \o ToString(cfg.port)>>
    ELSE <<>>

\* port = config.port; if port > 0: the service directive
PortLabels(cfg) ==
    IF cfg.port > 0
    THEN <<SERVICE_PREFIX \o "." \o cfg.deploy_name \o ".loadbalancer.server.port=" \o ToString(cfg.port)>>
    ELSE <<>>

\* the returned name taken from the HTTPS router (the mutant of GenReturned)
GenReturned_RouterName(cfg, label_set) ==
    [called |-> TRUE, exc |-> "", msg |-> "",
     name |-> IF cfg.https_redirection THEN cfg.deploy_name \o "-https" ELSE cfg.deploy_name,
     label_set |-> label_set]

\* return config.deploy_name, label_set
GenReturned(cfg, label_set) ==
    [called |-> TRUE, exc |-> "", msg |-> "", name |-> cfg.deploy_name, label_set |-> label_set]

\* gen_simple_label_set_for_service(config, enable)
gen_simple_label_set_for_service(cfg, enable) ==
    IF ~Truthy(cfg.rule)
    THEN GenRaised("AssertionError", "config.rule should not be None")
    ELSE IF cfg.https_redirection /\ ~(Len(cfg.tls_resolver) > 0)
    THEN GenRaised("AssertionError",
                   "ServiceConfig must contain a TLS resolver when using HTTPS redirection")
    ELSE GenReturned(cfg, EnableLabels(enable) \o RouterLabels(cfg) \o HttpsLabels(cfg)
                          \o PortLabels(cfg))

\* what the call leaves in the config object it was handed: the function
\* reads config and assigns to none of its attributes
ConfigAfterGen(cfg) == cfg

---------------------------------------------------------------------------
(* User input: utils/input.py *)

\* the outcome of one prompt: a value, or an exception
InputValue(v) == [exc |-> "", msg |-> "", value |-> v]
InputRaised(exc, msg) == [exc |-> exc, msg |-> msg, value |-> PyStr("")]

\* the text input_item hands to input_prefilled as the prefill:
\* str(item_orig) if item_orig else ""; item_orig None is has = FALSE
Prefill(has, item_orig) == IF has /\ PyTruthy(item_orig) THEN PyToStr(item_orig) ELSE ""

\* input_item(name, typ, item_orig), raw being what input() returned
input_item(typ, raw) ==
    LET new_value == IF typ = "bool" /\ Lower(raw) \notin {"true", "yes", "1", "y"}
                     THEN "" ELSE raw
    IN  IF new_value = "" THEN InputValue(PyOfFalse(typ))
        ELSE IF typ = "str" THEN InputValue(PyStr(new_value))
        ELSE IF typ = "bool" THEN InputValue(PyBool(TRUE))
        ELSE IF IsIntLiteral(new_value) THEN InputValue(PyInt(IntOf(new_value)))
        ELSE InputRaised("ValueError", "invalid literal for int() with base 10")

---------------------------------------------------------------------------
(* fill_missing_info *)

https_related_attrs == {"tls_resolver", "web_entrypoint", "websecure_entrypoint"}
attrs_with_default_value_name == {"url"}

\* the fields of ServiceConfig in declaration order, as asdict(config) lists them
ServiceConfigFields ==
    << "deploy_name", "rule", "url", "port", "https_enabled", "https_redirection",
       "web_entrypoint", "websecure_entrypoint", "tls_resolver" >>

\* getattr(config, attr_name) for the str, int and bool fields
GetAttr(cfg, attr_name) ==
    CASE attr_name = "deploy_name" -> PyStr(cfg.deploy_name)
      [] attr_name = "url" -> PyStr(cfg.url)
      [] attr_name = "port" -> PyInt(cfg.port)
      [] attr_name = "https_enabled" -> PyBool(cfg.https_enabled)
      [] attr_name = "https_redirection" -> PyBool(cfg.https_redirection)
      [] attr_name = "web_entrypoint" -> PyStr(cfg.web_entrypoint)
      [] attr_name = "websecure_entrypoint" -> PyStr(cfg.websecure_entrypoint)
      [] attr_name = "tls_resolver" -> PyStr(cfg.tls_resolver)

\* setattr(config, attr_name, v)
SetAttr(cfg, attr_name, v) ==
    CASE attr_name = "url" -> [cfg EXCEPT !.url = v.s]
      [] attr_name = "port" -> [cfg EXCEPT !.port = v.i]
      [] attr_name = "https_enabled" -> [cfg EXCEPT !.https_enabled = v.b]
      [] attr_name = "https_redirection" -> [cfg EXCEPT !.https_redirection = v.b]
      [] attr_name = "web_entrypoint" -> [cfg EXCEPT !.web_entrypoint = v.s]
      [] attr_name = "websecure_entrypoint" -> [cfg EXCEPT !.websecure_entrypoint = v.s]
      [] attr_name = "tls_resolver" -> [cfg EXCEPT !.tls_resolver = v.s]

\* one prompt shown to the user: the field, the type hinted, the prefilled text
Prompt(attr_name, typ, prefill) == [name |-> attr_name, typ |-> typ, prefill |-> prefill]

\* the outcome of fill_missing_info: the config as the call leaves it, the
\* exception if any, the prompts shown in order, the number of "is mandatory"
\* lines printed
FillOutcome(cfg, exc, msg, prompts, mandatory) ==
    [config |-> cfg, exc |-> exc, msg |-> msg, prompts |-> prompts, mandatory |-> mandatory]

\* the end of fill_missing_info deriving the rule only where the config has
\* none (the mutant of FillDeriveRule)
FillDeriveRule_IfNoRule(cfg, attr_name, prompts, mandatory) ==
    IF attr_name = "url" /\ cfg.rule = None
    THEN IF from_string(cfg.url).exc # ""
         THEN FillOutcome(cfg, from_string(cfg.url).exc, from_string(cfg.url).msg, prompts, mandatory)
         ELSE FillOutcome([cfg EXCEPT !.rule = from_string(cfg.url).obj], "", "", prompts, mandatory)
    ELSE FillOutcome(cfg, "", "", prompts, mandatory)

\* the end of fill_missing_info once the field is stored:
\* if attr_name == "url": config.rule = CombinedRule.from_string(config.url)
FillDeriveRule(cfg, attr_name, prompts, mandatory) ==
    IF attr_name = "url"
    THEN IF from_string(cfg.url).exc # ""
         THEN FillOutcome(cfg, from_string(cfg.url).exc, from_string(cfg.url).msg, prompts, mandatory)
         ELSE FillOutcome([cfg EXCEPT !.rule = from_string(cfg.url).obj], "", "", prompts, mandatory)
    ELSE FillOutcome(cfg, "", "", prompts, mandatory)

\* the `while True:` loop of fill_missing_info, answers being what the user
\* has yet to type; input() raises EOFError when there is nothing left
RECURSIVE FillAskLoop(_, _, _, _, _, _)
FillAskLoop(cfg, attr_name, typ, answers, prompts, mandatory) ==
    LET default_has == attr_name \in attrs_with_default_value_name
        shown == Append(prompts, Prompt(attr_name, typ, Prefill(default_has, PyStr(cfg.deploy_name))))
    IN  IF Len(answers) = 0
        THEN FillOutcome(cfg, "EOFError", "EOF when reading a line", shown, mandatory)
        ELSE IF input_item(typ, answers[1]).exc # ""
        THEN FillOutcome(cfg, input_item(typ, answers[1]).exc, input_item(typ, answers[1]).msg,
                         shown, mandatory)
        ELSE IF input_item(typ, answers[1]).value = PyStr("")
        THEN FillAskLoop(cfg, attr_name, typ, Tail(answers), shown, mandatory + 1)
        ELSE FillDeriveRule(SetAttr(cfg, attr_name, input_item(typ, answers[1]).value),
                            attr_name, shown, mandatory)

\* the else branch: setattr(config, attr_name, query_change(value, attr_name))
FillChange(cfg, attr_name, value, answers) ==
    LET shown == <<Prompt(attr_name, value.t, Prefill(TRUE, value))>>
    IN  IF Len(answers) = 0
        THEN FillOutcome(cfg, "EOFError", "EOF when reading a line", shown, 0)
        ELSE IF input_item(value.t, answers[1]).exc # ""
        THEN FillOutcome(cfg, input_item(value.t, answers[1]).exc,
                         input_item(value.t, answers[1]).msg, shown, 0)
        ELSE FillDeriveRule(SetAttr(cfg, attr_name, input_item(value.t, answers[1]).value),
                            attr_name, shown, 0)

\* fill_missing_info skipping the HTTPS-related fields on https_enabled
\* instead of https_redirection (a mutant of fill_missing_info)
fill_missing_info_SkipOnEnabled(cfg, attr_name, value, answers) ==
    IF attr_name \in {"deploy_name", "rule"}
    THEN FillOutcome(cfg, "", "", <<>>, 0)
    ELSE IF attr_name \in https_related_attrs /\ ~cfg.https_enabled
    THEN FillOutcome(cfg, "", "", <<>>, 0)
    ELSE IF attr_name = "port" /\ cfg.port # 0
    THEN FillOutcome(cfg, "", "", <<>>, 0)
    ELSE IF ~PyTruthy(value)
    THEN FillAskLoop(cfg, attr_name, GetAttr(cfg, attr_name).t, answers, <<>>, 0)
    ELSE FillChange(cfg, attr_name, value, answers)

\* fill_missing_info without `if attr_name == "port" and config.port: return`
\* (the mutant of fill_missing_info)
fill_missing_info_NoPortSkip(cfg, attr_name, value, answers) ==
    IF attr_name \in {"deploy_name", "rule"}
    THEN FillOutcome(cfg, "", "", <<>>, 0)
    ELSE IF attr_name \in https_related_attrs /\ ~cfg.https_redirection
    THEN FillOutcome(cfg, "", "", <<>>, 0)
    ELSE IF ~PyTruthy(value)
    THEN FillAskLoop(cfg, attr_name, GetAttr(cfg, attr_name).t, answers, <<>>, 0)
    ELSE FillChange(cfg, attr_name, value, answers)

\* fill_missing_info(config, attr_name, value)
fill_missing_info(cfg, attr_name, value, answers) ==
    IF attr_name \in {"deploy_name", "rule"}
    THEN FillOutcome(cfg, "", "", <<>>, 0)
    ELSE IF attr_name \in https_related_attrs /\ ~cfg.https_redirection
    THEN FillOutcome(cfg, "", "", <<>>, 0)
    ELSE IF attr_name = "port" /\ cfg.port # 0
    THEN FillOutcome(cfg, "", "", <<>>, 0)
    ELSE IF ~PyTruthy(value)
    THEN FillAskLoop(cfg, attr_name, GetAttr(cfg, attr_name).t, answers, <<>>, 0)
    ELSE FillChange(cfg, attr_name, value, answers)

---------------------------------------------------------------------------
(* The inputs the callers choose from *)

\* the longest *content a Rule is constructed with
MaxContent == 3

DeployNames == {"myapp", "webapp"}
Ports == {-1, 0, 8080}
WebEntrypoints == {"web", "http-custom"}
WebsecureEntrypoints == {"websecure", "https-custom"}
TlsResolvers == {"", "letsencrypt"}

\* config.rule: None, a Rule, or a CombinedRule of two Rules
ConfigRules ==
    { None,
      Rule_init("Host", <<"example.com">>).obj,
      CombinedRuleObject(<<Rule_init("Host", <<"example.com">>).obj,
                           Rule_init("PathPrefix", <<"/api">>).obj>>, <<"&&">>) }

\* the first argument of Rule(...): the four kinds and two that are not
RuleKinds == ALLOWED_RULES \cup {"InvalidType", "host"}
ContentStrings == {"example.com", "/api", "X-Custom-Header"}
Contents == UNION { [1..n -> ContentStrings] : n \in 0..MaxContent }

NoRuleCall == [called |-> FALSE, typ |-> "", content |-> <<>>, exc |-> "", msg |-> "", obj |-> None]

\* the most arguments a CombinedRule is constructed with
MaxArgs == 5

\* the arguments of CombinedRule(...): two Rules, the two operators, and an int
CombinedArgs ==
    { ArgRule(Rule_init("Host", <<"example.com">>).obj),
      ArgRule(Rule_init("Headers", <<"X-Api-Key", "secret">>).obj),
      ArgStr("&&"), ArgStr("||"), ArgInt(123) }
CombinedArgLists == UNION { [1..n -> CombinedArgs] : n \in 0..MaxArgs }

NoCombinedCall == [called |-> FALSE, args |-> <<>>, exc |-> "", msg |-> "", obj |-> None]

\* the most "/" in a string handed to CombinedRule.from_string
MaxSlashes == 2

\* the strings handed to from_string: segments joined by "/"
Segments == {"", "example.com", "api", "v1"}
FromStringInputs ==
    { Join(parts, "/") : parts \in UNION { [1..n -> Segments] : n \in 1..(MaxSlashes + 1) } }

NoFromStringCall == [called |-> FALSE, string |-> "", exc |-> "", msg |-> "", obj |-> None]

\* TraefikConfig(entrypoints=..., tls_resolvers=..., default_...=...)
TraefikConfig(entrypoints, tls_resolvers, default_web_entrypoint, default_websecure_entrypoint, default_tls_resolver) ==
    [cls |-> "TraefikConfig", entrypoints |-> entrypoints, tls_resolvers |-> tls_resolvers,
     default_web_entrypoint |-> default_web_entrypoint,
     default_websecure_entrypoint |-> default_websecure_entrypoint,
     default_tls_resolver |-> default_tls_resolver]

\* no profile attached (traefik_config=None)
NoProfile ==
    [cls |-> "NoneType", entrypoints |-> <<>>, tls_resolvers |-> <<>>,
     default_web_entrypoint |-> "", default_websecure_entrypoint |-> "",
     default_tls_resolver |-> ""]

\* the profiles a caller attaches: none, or one with custom names
Profiles ==
    { NoProfile,
      TraefikConfig(<<"public", "secure">>, <<"myresolver">>, "public", "secure", "myresolver") }

\* the most lines the user types during one fill_missing_info call
MaxAnswers == 2

\* what the user types at a prompt
RawAnswers == {"", "example.com/api", "/", "1"}
AnswerLists == UNION { [1..n -> RawAnswers] : n \in 0..MaxAnswers }

\* the ServiceConfig objects fill_missing_info is run on: fresh (no url, no
\* rule) or with a url and the rule derived from it
FillConfigs ==
    { ServiceConfig("myapp", (IF url = "" THEN None ELSE from_string(url).obj), url, port,
                    https_enabled, https_redirection, "web", "websecure", "") :
        url \in {"", "old.example.com"}, port \in {0, 8080},
        https_enabled \in BOOLEAN, https_redirection \in BOOLEAN }

\* the value argument for a field: the field's value as asdict(config) gives
\* it, or the empty value of its type as the tests pass it; the value of
\* rule is never read
FillValues(cfg, attr_name) ==
    IF attr_name = "rule" THEN {PyStr("")}
    ELSE {GetAttr(cfg, attr_name), PyEmpty(GetAttr(cfg, attr_name).t)}

\* before is the config as it was when the call was made
NoFillCall ==
    [called |-> FALSE, attr_name |-> "", value |-> PyStr(""), answers |-> <<>>,
     before |-> ServiceConfigDefault("myapp"),
     exc |-> "", msg |-> "", prompts |-> <<>>, mandatory |-> 0]
NoResults == [enable \in BOOLEAN |-> NotCalled]

---------------------------------------------------------------------------
(* The state machine *)

\* the ServiceConfig objects a caller constructs
ServiceConfigs ==
    { ServiceConfig(deploy_name, rule, "", port, https_enabled, https_redirection,
                    web_entrypoint, websecure_entrypoint, tls_resolver) :
        deploy_name \in DeployNames, rule \in ConfigRules, port \in Ports,
        https_enabled \in BOOLEAN, https_redirection \in BOOLEAN,
        web_entrypoint \in WebEntrypoints, websecure_entrypoint \in WebsecureEntrypoints,
        tls_resolver \in TlsResolvers }

---------------------------------------------------------------------------
(* gen_label_set_from_limited_info: the pass over the fields *)

\* the value asdict(config) holds for a field; that of rule is never read
PassValue(snapshot, attr_name) ==
    IF attr_name = "rule" THEN PyStr("") ELSE GetAttr(snapshot, attr_name)

\* one turn of the loop with the skip decided on the https_redirection the
\* config had when the pass started (the mutant of PassStep)
PassStep_StartFlag(cfg, snapshot, i, answers) ==
    LET attr_name == ServiceConfigFields[i]
        out == fill_missing_info([cfg EXCEPT !.https_redirection = snapshot.https_redirection],
                                 attr_name, PassValue(snapshot, attr_name), answers)
    IN  IF attr_name = "https_redirection" THEN out
        ELSE [out EXCEPT !.config.https_redirection = cfg.https_redirection]

\* one turn of `for key, value in asdict(config).items():
\*                  fill_missing_info(config, key, value)`
PassStep(cfg, snapshot, i, answers) ==
    fill_missing_info(cfg, ServiceConfigFields[i], PassValue(snapshot, ServiceConfigFields[i]), answers)

\* the user typed exactly the answers the prompts of this turn read; a prompt
\* with nothing left to read is the user closing the input
Consumed(outcome, answers) ==
    IF outcome.exc = "EOFError" THEN Len(outcome.prompts) = Len(answers) + 1
    ELSE Len(outcome.prompts) = Len(answers)

\* the pass has not begun: pc 0; pc i in 1..9 is the turn of field i to come,
\* pc 10 the generation to come, pc 11 the return
NoPassCall ==
    [pc |-> 0, snapshot |-> ServiceConfigDefault("myapp"), exc |-> "", msg |-> "",
     prompts |-> <<>>, result |-> NotCalled]

---------------------------------------------------------------------------
(* utils/traefik_config.py: building a TraefikConfig from a parsed file *)

\* one item of the entry point mapping: the name, and the "address" of its
\* configuration ("" when the configuration has none)
EntryPoint(name, has_address, address) == [name |-> name, has_address |-> has_address, address |-> address]

\* the parsed configuration: for each of the four top-level keys whether it is
\* there, and the mapping under it as the sequence of its items in file order
\* (the resolvers by name)
ParsedConfig(has_entryPoints, entryPoints, has_entrypoints, entrypoints, has_certificatesResolvers, certificatesResolvers, has_certificatesresolvers, certificatesresolvers) ==
    [has_entryPoints |-> has_entryPoints, entryPoints |-> entryPoints,
     has_entrypoints |-> has_entrypoints, entrypoints |-> entrypoints,
     has_certificatesResolvers |-> has_certificatesResolvers,
     certificatesResolvers |-> certificatesResolvers,
     has_certificatesresolvers |-> has_certificatesresolvers,
     certificatesresolvers |-> certificatesresolvers]

\* list(entrypoints_dict.keys())
Keys(items) == [i \in 1..Len(items) |-> items[i].name]

\* Python: x in list
InList(x, list) == \E i \in 1..Len(list) : list[i] = x

\* address == ":80" or ":80/" in address or address.endswith(":80"), port
\* being "80" or "443"
AddressOnPort(address, port) ==
    \/ address = ":" \o port
    \/ Contains(address, ":" \o port \o "/")
    \/ EndsWith(address, ":" \o port)

\* the for loop over entrypoints_dict.items(): port_80_entrypoint and
\* port_443_entrypoint after it (None is "")
RECURSIVE PortScan(_, _, _)
PortScan(items, port_80_entrypoint, port_443_entrypoint) ==
    IF Len(items) = 0
    THEN [port_80_entrypoint |-> port_80_entrypoint, port_443_entrypoint |-> port_443_entrypoint]
    ELSE IF items[1].has_address /\ AddressOnPort(items[1].address, "80")
    THEN PortScan(Tail(items), items[1].name, port_443_entrypoint)
    ELSE IF items[1].has_address /\ AddressOnPort(items[1].address, "443")
    THEN PortScan(Tail(items), port_80_entrypoint, items[1].name)
    ELSE PortScan(Tail(items), port_80_entrypoint, port_443_entrypoint)

\* the default web entry point looked up by name before by port (the mutant
\* of DefaultWeb)
DefaultWeb_NamesFirst(entrypoints, port_80_entrypoint) ==
    IF Len(entrypoints) = 0 THEN "web"
    ELSE IF InList("web", entrypoints) THEN "web"
    ELSE IF InList("http", entrypoints) THEN "http"
    ELSE IF port_80_entrypoint # "" THEN port_80_entrypoint
    ELSE entrypoints[1]

\* default_web after `if entrypoints:`
DefaultWeb(entrypoints, port_80_entrypoint) ==
    IF Len(entrypoints) = 0 THEN "web"
    ELSE IF port_80_entrypoint # "" THEN port_80_entrypoint
    ELSE IF InList("web", entrypoints) THEN "web"
    ELSE IF InList("http", entrypoints) THEN "http"
    ELSE entrypoints[1]

\* default_websecure after `if entrypoints:`
DefaultWebsecure(entrypoints, port_443_entrypoint) ==
    IF Len(entrypoints) = 0 THEN "websecure"
    ELSE IF port_443_entrypoint # "" THEN port_443_entrypoint
    ELSE IF InList("websecure", entrypoints) THEN "websecure"
    ELSE IF InList("https", entrypoints) THEN "https"
    ELSE IF Len(entrypoints) > 1 THEN entrypoints[2]
    ELSE "websecure"

\* _build_traefik_config_from_dict(data)
build_traefik_config_from_dict(data) ==
    LET entrypoints_dict == IF data.has_entryPoints THEN data.entryPoints
                            ELSE IF data.has_entrypoints THEN data.entrypoints
                            ELSE <<>>
        entrypoints == Keys(entrypoints_dict)
        tls_resolvers == IF data.has_certificatesResolvers THEN data.certificatesResolvers
                         ELSE IF data.has_certificatesresolvers THEN data.certificatesresolvers
                         ELSE <<>>
        scan == PortScan(entrypoints_dict, "", "")
    IN  TraefikConfig(entrypoints, tls_resolvers,
                      DefaultWeb(entrypoints, scan.port_80_entrypoint),
                      DefaultWebsecure(entrypoints, scan.port_443_entrypoint),
                      IF Len(tls_resolvers) > 0 THEN tls_resolvers[1] ELSE "")

\* the most entry points a parsed configuration declares
MaxEntrypoints == 3

EntrypointNames == {"web", "http", "websecure", "https", "public", "secure"}

\* the address of an entry point: none, port 80, port 443 behind a host,
\* another port
EntryPointConfigs ==
    { [has_address |-> FALSE, address |-> ""],
      [has_address |-> TRUE, address |-> ":80"],
      [has_address |-> TRUE, address |-> "0.0.0.0:443"],
      [has_address |-> TRUE, address |-> ":8080"] }

\* the ways to name n entry points: the keys of a mapping are distinct
DistinctNames(n) ==
    { names \in [1..n -> EntrypointNames] : \A i, j \in 1..n : i # j => names[i] # names[j] }

\* the entry point mapping with these names and configurations, in file order
EntrypointDict(names, configs) ==
    [i \in 1..Len(names) |-> EntryPoint(names[i], configs[i].has_address, configs[i].address)]

ResolverLists == { <<>>, <<"letsencrypt">>, <<"myresolver", "letsencrypt">> }

\* a parsed configuration with every presence of the four keys around two
\* fixed entry point mappings
KeyedConfig(hE, he, hR, hr, resolvers) ==
    ParsedConfig(hE, IF hE THEN <<EntryPoint("public", TRUE, ":80")>> ELSE <<>>,
                 he, IF he THEN <<EntryPoint("http", FALSE, ""), EntryPoint("https", FALSE, "")>> ELSE <<>>,
                 hR, IF hR THEN resolvers ELSE <<>>,
                 hr, IF hr THEN <<"lower">> ELSE <<>>)

NoBuildCall == [called |-> FALSE, data |-> ParsedConfig(FALSE, <<>>, FALSE, <<>>, FALSE, <<>>, FALSE, <<>>), obj |-> NoProfile]

---------------------------------------------------------------------------
(* utils/traefik_config.py: loading a Traefik configuration file *)

\* Python: repr(s) of a string without quotes or escapes
Repr(s) == "'" \o s \o "'"

\* what is at a path: nothing ("missing"), text the parser of the format
\* rejects ("invalid"), an empty file ("null"), text that is a YAML list or
\* scalar ("list", "scalar"), or a mapping ("mapping") holding data
File(kind, data) == [kind |-> kind, data |-> data]

\* the outcome of a load: the exception or the TraefikConfig, the loader
\* dispatched to ("" when none), whether open() was called
LoadRaised(msg, via, opened) ==
    [exc |-> "NoInformationException", msg |-> msg, obj |-> NoProfile, loader |-> via, opened |-> opened]

LoadReturned(obj, via) ==
    [exc |-> "", msg |-> "", obj |-> obj, loader |-> via, opened |-> TRUE]

\* load_traefik_config_from_yaml(path)
load_traefik_config_from_yaml(path, file) ==
    IF file.kind = "missing"
    THEN LoadRaised("Traefik config file not found: " \o Repr(path), "yaml", TRUE)
    ELSE IF file.kind = "invalid"
    THEN LoadRaised("Invalid YAML in Traefik config file " \o Repr(path) \o ": ", "yaml", TRUE)
    ELSE IF file.kind \in {"null", "list", "scalar"}
    THEN LoadRaised("File " \o Repr(path) \o " does not contain valid Traefik configuration.", "yaml", TRUE)
    ELSE LoadReturned(build_traefik_config_from_dict(file.data), "yaml")

\* load_traefik_config_from_toml(path); has_tomllib: tomllib or tomli can be
\* imported.  An empty file is the empty TOML document {}; a YAML list or
\* scalar is not TOML
load_traefik_config_from_toml(path, file, has_tomllib) ==
    IF ~has_tomllib
    THEN LoadRaised("TOML support requires 'tomli' package. Install with: pip install tomli", "toml", FALSE)
    ELSE IF file.kind = "missing"
    THEN LoadRaised("Traefik config file not found: " \o Repr(path), "toml", TRUE)
    ELSE IF file.kind \in {"invalid", "list", "scalar"}
    THEN LoadRaised("Error reading TOML file " \o Repr(path) \o ": ", "toml", TRUE)
    ELSE LoadReturned(build_traefik_config_from_dict(file.data), "toml")

\* load_traefik_config comparing the extension as written (the mutant of
\* load_traefik_config)
load_traefik_config_CaseSensitive(path, file, has_tomllib) ==
    IF EndsWith(path, ".yml") \/ EndsWith(path, ".yaml")
    THEN load_traefik_config_from_yaml(path, file)
    ELSE IF EndsWith(path, ".toml")
    THEN load_traefik_config_from_toml(path, file, has_tomllib)
    ELSE LoadRaised("Unsupported config file format: " \o Repr(path) \o ". "
                    \o "Supported formats: .yml, .yaml, .toml", "", FALSE)

\* load_traefik_config(path)
load_traefik_config(path, file, has_tomllib) ==
    IF EndsWith(Lower(path), ".yml") \/ EndsWith(Lower(path), ".yaml")
    THEN load_traefik_config_from_yaml(path, file)
    ELSE IF EndsWith(Lower(path), ".toml")
    THEN load_traefik_config_from_toml(path, file, has_tomllib)
    ELSE LoadRaised("Unsupported config file format: " \o Repr(path) \o ". "
                    \o "Supported formats: .yml, .yaml, .toml", "", FALSE)

\* the paths handed to load_traefik_config
ConfigPaths == {"traefik.yml", "etc/Traefik.YAML", "traefik.toml", "Traefik.Toml",
                "/path/to/config.json", "traefik", "traefik.yml.bak"}

EmptyData == ParsedConfig(FALSE, <<>>, FALSE, <<>>, FALSE, <<>>, FALSE, <<>>)

\* what the path holds
ConfigFiles ==
    { File(kind, EmptyData) : kind \in {"missing", "invalid", "null", "list", "scalar", "mapping"} }
    \cup { File("mapping", KeyedConfig(TRUE, FALSE, TRUE, FALSE, <<"letsencrypt">>)),
           File("mapping", KeyedConfig(FALSE, TRUE, FALSE, TRUE, <<>>)) }

NoLoadCall ==
    [called |-> FALSE, path |-> "", file |-> File("missing", EmptyData), has_tomllib |-> TRUE,
     exc |-> "", msg |-> "", obj |-> NoProfile, loader |-> "", opened |-> FALSE]

---------------------------------------------------------------------------
(* utils/formatter.py and print_labels of cli.py *)

\* the line feed print() ends a line with
NL == "\n"

\* LabelFormatter(formatter, sep, end).format(labels), formatter putting
\* prefix and suffix around a label
LabelFormatter_format(prefix, suffix, sep, end, labels) ==
    Join([i \in 1..Len(labels) |-> prefix \o labels[i] \o suffix], sep) \o end

formatter_none(labels) == LabelFormatter_format("", "", NL, NL, labels)

formatter_docker(labels) == LabelFormatter_format("--label '", "'", " ", NL, labels)

formatter_yaml(labels) == LabelFormatter_format("  - ", "", NL, NL, labels)

\* globals()[f"formatter_{args.format}"](labels)
Format(format, labels) ==
    CASE format = "none" -> formatter_none(labels)
      [] format = "docker" -> formatter_docker(labels)
      [] format = "yaml" -> formatter_yaml(labels)

\* a (title, label_list) pair
LabelSet(title, label_list) == [title |-> title, label_list |-> label_list]

\* print_labels printing the pairs with an empty label list too (the mutant
\* of print_labels)
RECURSIVE print_labels_NoSkip(_, _)
print_labels_NoSkip(labels, format) ==
    IF Len(labels) = 0 THEN <<>>
    ELSE << "--START GENERATED LABELS FOR " \o Repr(labels[1].title) \o "--" \o NL,
            Format(format, labels[1].label_list),
            "--END GENERATED LABELS FOR " \o Repr(labels[1].title) \o "--" \o NL >>
         \o print_labels_NoSkip(Tail(labels), format)

\* print_labels(labels, formatter): what it writes to the standard output,
\* one element per print()
RECURSIVE print_labels(_, _)
print_labels(labels, format) ==
    IF Len(labels) = 0 THEN <<>>
    ELSE IF Len(labels[1].label_list) = 0 THEN print_labels(Tail(labels), format)
    ELSE << "--START GENERATED LABELS FOR " \o Repr(labels[1].title) \o "--" \o NL,
            Format(format, labels[1].label_list),
            "--END GENERATED LABELS FOR " \o Repr(labels[1].title) \o "--" \o NL >>
         \o print_labels(Tail(labels), format)

\* the most (title, labels) pairs handed to print_labels
MaxPairs == 3

FORMATS == {"none", "docker", "yaml"}

Titles == {"app1", "app2", "app3"}

LabelLists == { <<>>, <<"label1=a">>, <<"label1=value1", "label2=value2">> }

NoPrintCall == [called |-> FALSE, labels |-> <<>>, format |-> "none", stdout |-> <<>>]

---------------------------------------------------------------------------
(* gen_label_set_from_compose *)

\* one item of the services mapping: the name and the definition under it.
\* kind is "mapping", "null" (nothing under the name) or "str" (a scalar);
\* build is what is under the "build" key of a mapping: "str" (a directory),
\* "context" (a mapping with a context), "nocontext" (a mapping without),
\* "null" (nothing)
Service(name, kind, has_build, build, has_image) ==
    [name |-> name, kind |-> kind, has_build |-> has_build, build |-> build, has_image |-> has_image]

\* what yaml.safe_load gives for the file at the path: kind is "missing" (no
\* file), "empty" (None), "scalar", "list" or "mapping"; a mapping has the
\* "services" key or not, and under it the items in file order
ComposeFile(kind, has_services, services) ==
    [kind |-> kind, has_services |-> has_services, services |-> services]

\* the outcome of gen_label_set_from_compose
ComposeRaised(exc, msg) == [exc |-> exc, msg |-> msg, returned |-> FALSE, title |-> "", label_set |-> <<>>]

ComposeReturned(title, label_set) ==
    [exc |-> "", msg |-> "", returned |-> TRUE, title |-> title, label_set |-> label_set]

\* query_selection(options, item_name): the index selected (from 1), answer
\* being what the user types when there are several options
query_selection(options, answer) ==
    IF Len(options) = 0
    THEN [exc |-> "ValueError", msg |-> "Options list must not be empty for query_selection.", index |-> 0]
    ELSE IF Len(options) = 1 THEN [exc |-> "", msg |-> "", index |-> 1]
    ELSE IF answer = "" THEN [exc |-> "", msg |-> "", index |-> 1]
    ELSE IF ~IsIntLiteral(answer)
    THEN [exc |-> "ValueError", msg |-> "invalid literal for int() with base 10", index |-> 0]
    ELSE IF IntOf(answer) \notin 1..Len(options)
    THEN [exc |-> "AssertionError", msg |-> "Selected index out of range", index |-> 0]
    ELSE [exc |-> "", msg |-> "", index |-> IntOf(answer)]

\* the image branch: the docker module, then gen_label_set_from_image, whose
\* outcome image is "labels", "nolabels" (the user is asked instead),
\* "ImageNotFound" or "NotFound"
ComposeFromImage(path, service_name, docker_module, image) ==
    IF ~docker_module THEN ComposeReturned(service_name, <<traefik_enable>>)
    ELSE IF image = "ImageNotFound"
    THEN ComposeRaised("NoInformationException", "Invalid docker image: 'image' in " \o Repr(path) \o ".")
    ELSE IF image = "NotFound"
    THEN ComposeRaised("NoInformationException", "Invalid image tag: 'image' in " \o Repr(path) \o ".")
    ELSE ComposeReturned(service_name, <<traefik_enable>>)

\* the try block on the selected service definition
ComposeService(path, service, docker_module, image) ==
    IF service.kind # "mapping"
    THEN ComposeRaised("NoInformationException",
                       "Invalid service: " \o Repr(service.name) \o " in " \o Repr(path))
    ELSE IF service.has_build /\ service.build \in {"str", "context"}
    THEN ComposeRaised("NotImplementedError", "Parsing Dockerfile is not implemented yet")
    ELSE IF service.has_build /\ service.build = "null"
    THEN ComposeRaised("UnboundLocalError", "local variable 'build_dir' referenced before assignment")
    ELSE IF ~service.has_image
    THEN ComposeRaised("NoInformationException",
                       "No image or build information found in service definition in " \o Repr(path) \o ".")
    ELSE ComposeFromImage(path, service.name, docker_module, image)

\* gen_label_set_from_compose(path)
gen_label_set_from_compose(path, file, answer, docker_module, image) ==
    IF file.kind = "missing"
    THEN ComposeRaised("FileNotFoundError", "No such file or directory: " \o Repr(path))
    ELSE IF file.kind # "mapping"
    THEN ComposeRaised("NoInformationException", "File " \o Repr(path) \o " does not contain valid YAML.")
    ELSE IF ~file.has_services
    THEN ComposeRaised("NoInformationException", "No 'services' key in " \o Repr(path) \o ".")
    ELSE IF Len(file.services) = 0
    THEN ComposeRaised("NoInformationException", "No services defined in " \o Repr(path) \o ".")
    ELSE IF query_selection(Keys(file.services), answer).exc # ""
    THEN ComposeRaised(query_selection(Keys(file.services), answer).exc,
                       query_selection(Keys(file.services), answer).msg)
    ELSE ComposeService(path, file.services[query_selection(Keys(file.services), answer).index],
                        docker_module, image)

\* the most services a Compose file defines
MaxServices == 2

ServiceNames == <<"web", "db", "cache">>

\* the definitions under a service name
ServiceDefs ==
    { [kind |-> "null", has_build |-> FALSE, build |-> "null", has_image |-> FALSE],
      [kind |-> "str", has_build |-> FALSE, build |-> "null", has_image |-> FALSE] }
    \cup { [kind |-> "mapping", has_build |-> FALSE, build |-> "null", has_image |-> has_image] :
             has_image \in BOOLEAN }
    \cup { [kind |-> "mapping", has_build |-> TRUE, build |-> build, has_image |-> has_image] :
             build \in {"str", "context", "nocontext", "null"}, has_image \in BOOLEAN }

\* what the user types when asked which service to use
SelectionAnswers == {"", "2", "5", "x"}

ImageOutcomes == {"labels", "nolabels", "ImageNotFound", "NotFound"}

NoComposeCall ==
    [called |-> FALSE, path |-> "docker-compose.yml", file |-> ComposeFile("missing", FALSE, <<>>),
     answer |-> "", docker_module |-> TRUE, image |-> "labels",
     exc |-> "", msg |-> "", returned |-> FALSE, title |-> "", label_set |-> <<>>]

---------------------------------------------------------------------------
(* utils/loader.py: the Loader context manager and its animation thread *)

\* the most spinner frames the animation thread prints in a run
MaxFrames == 3

\* Loader(desc, end, errend) constructed and not entered.  main is the
\* position of the thread using the with block: "new", "body" (inside the
\* block), "stop" (stop() entered), "done_set", "cleared", "exited";
\* animate is the position of the animation thread: "unstarted", "check"
\* (about to test self.done), "print", "sleep", "ended"; terminal is what
\* has been printed, in order: "frame", "clear", "end", "errend"
NoLoader ==
    [main |-> "new", animate |-> "unstarted", done |-> FALSE, error |-> FALSE,
     frames |-> 0, terminal |-> <<>>]

---------------------------------------------------------------------------
(* labels_from_compose_files of cli.py *)

\* the most Compose files on a command line
MaxFiles == 3

Filepaths == <<"a.yml", "b.yaml", "c.yml", "d.yml">>

\* what gen_label_set_from_compose does for a file: it returns a label set
\* ("labels") or raises the exception named
FileOutcomes == {"labels", "FileNotFoundError", "NoInformationException", "NotImplementedError"}

\* the label set gen_label_set_from_compose returns for a file
FileLabels(filepath) == LabelSet(filepath, <<traefik_enable>>)

\* one turn of the loop without `except NoInformationException` (the mutant
\* of FilesTurn)
FilesTurn_NoInformationUncaught(call, filepath, outcome) ==
    IF outcome = "labels"
    THEN [call EXCEPT !.pc = @ + 1, !.attempts = Append(@, filepath),
                      !.labels = Append(@, FileLabels(filepath))]
    ELSE IF outcome = "FileNotFoundError"
    THEN [call EXCEPT !.pc = @ + 1, !.attempts = Append(@, filepath),
                      !.printed = Append(@, "Unknown file path: " \o Repr(filepath))]
    ELSE [call EXCEPT !.attempts = Append(@, filepath), !.exc = outcome]

\* one turn of `for filepath in files:` with its try statement
FilesTurn(call, filepath, outcome) ==
    IF outcome = "labels"
    THEN [call EXCEPT !.pc = @ + 1, !.attempts = Append(@, filepath),
                      !.labels = Append(@, FileLabels(filepath))]
    ELSE IF outcome = "FileNotFoundError"
    THEN [call EXCEPT !.pc = @ + 1, !.attempts = Append(@, filepath),
                      !.printed = Append(@, "Unknown file path: " \o Repr(filepath))]
    ELSE IF outcome = "NoInformationException"
    THEN [call EXCEPT !.pc = @ + 1, !.attempts = Append(@, filepath),
                      !.printed = Append(@, "NoInformationException for " \o Repr(filepath))]
    ELSE [call EXCEPT !.attempts = Append(@, filepath), !.exc = outcome]

\* labels_from_compose_files(files) entered: pc is the index of the file to
\* attempt; outcomes[i] is what gen_label_set_from_compose will do for files[i]
NoFilesCall ==
    [files |-> <<>>, outcomes |-> <<>>, pc |-> 1, attempts |-> <<>>, printed |-> <<>>,
     labels |-> <<>>, exc |-> "", returned |-> FALSE]

---------------------------------------------------------------------------
(* main of cli.py *)

__version__ == "0.4.1"

\* argparse's namespace: container and traefik_config are None (NotGiven) when the option
\* is not given
Args(version, interactive, container, format, traefik, files) ==
    [version |-> version, interactive |-> interactive, container |-> container,
     format |-> format, traefik_config |-> traefik, files |-> files]

NotGiven == [given |-> FALSE, value |-> ""]

Option(value) == [given |-> TRUE, value |-> value]

\* bool() of an optional string: given and not empty
Given(option) == option.given /\ option.value # ""

\* a call main makes, with the arguments it passes
Call(fn, name, files, traefik, format) ==
    [fn |-> fn, name |-> name, files |-> files, traefik_config |-> traefik, format |-> format]

\* the if/elif chain with the container test first (the mutant of Mode)
Mode_ContainerFirst(args) ==
    IF Given(args.container) THEN "container"
    ELSE IF args.interactive THEN "interactive"
    ELSE IF args.files # <<>> THEN "files"
    ELSE "help"

\* the branch the if/elif chain of main takes
Mode(args) ==
    IF args.interactive THEN "interactive"
    ELSE IF Given(args.container) THEN "container"
    ELSE IF args.files # <<>> THEN "files"
    ELSE "help"

\* the call of the handler of a mode
HandlerCall(args, mode, traefik) ==
    IF mode = "interactive" THEN Call("labels_from_user", "", <<>>, traefik, "")
    ELSE IF mode = "container" THEN Call("labels_from_container", args.container.value, <<>>, traefik, "")
    ELSE Call("labels_from_compose_files", "", args.files, traefik, "")

\* the values of the options on the command line
ContainerOptions == {NotGiven, Option(""), Option("mycontainer")}

TraefikOptions == {NotGiven, Option(""), Option("traefik.yml")}

FileLists == {<<>>, <<"docker-compose.yml">>, <<"b.yml", "a.yml">>}

\* what load_traefik_config does for the path given
LoadOutcomes == {"TraefikConfig", "NoInformationException"}

\* what the handler does: the label sets it returns, or an exception it lets
\* through
HandlerReturns ==
    { <<>>, <<LabelSet("myapp", <<traefik_enable>>)>>,
      <<LabelSet("b", <<>>), LabelSet("a", <<traefik_enable>>)>> }

HandlerOutcomes ==
    {[exc |-> "", labels |-> l] : l \in HandlerReturns}
        \cup {[exc |-> "NotImplementedError", labels |-> <<>>]}

\* main() after parse_known_args: load and handler are what the two callees
\* will do; traefik_config is "None" or "TraefikConfig"
NoMainCall ==
    [pc |-> "idle", args |-> Args(FALSE, FALSE, NotGiven, "none", NotGiven, <<>>),
     load |-> "TraefikConfig", handler |-> [exc |-> "", labels |-> <<>>],
     traefik_config |-> "None", labels |-> <<>>, calls |-> <<>>, stdout |-> <<>>, exc |-> ""]

---------------------------------------------------------------------------
(* The idle values of the calls not yet made *)


\* no call of the passes, the loaders or the command line has been made
CliIdle ==
    /\ pass_call = NoPassCall
    /\ build_call = NoBuildCall
    /\ load_call = NoLoadCall
    /\ print_call = NoPrintCall
    /\ compose_call = NoComposeCall
    /\ main_call = NoMainCall
    /\ loader = NoLoader
    /\ files_call = NoFilesCall

\* a caller has built the ServiceConfig it will generate labels for
Init ==
    /\ CliIdle
    /\ config \in ServiceConfigs
    /\ result = NoResults
    /\ previous = NoResults
    /\ rule_call = NoRuleCall
    /\ combined_call = NoCombinedCall
    /\ from_string_call = NoFromStringCall
    /\ traefik_config = NoProfile
    /\ fill_call = NoFillCall

\* a caller runs gen_simple_label_set_for_service(config, enable)
Generate(enable) ==
    /\ result' = [result EXCEPT ![enable] = gen_simple_label_set_for_service(config, enable)]
    /\ previous' = [previous EXCEPT ![enable] = result[enable]]
    /\ config' = ConfigAfterGen(config)
    /\ UNCHANGED <<rule_call, combined_call, from_string_call, traefik_config, fill_call, clivars>>

\* a caller runs Rule(typ, *content)
NewRule(typ, content) ==
    /\ rule_call' = [called |-> TRUE, typ |-> typ, content |-> content,
                     exc |-> Rule_init(typ, content).exc,
                     msg |-> Rule_init(typ, content).msg,
                     obj |-> Rule_init(typ, content).obj]
    /\ UNCHANGED <<config, result, previous, combined_call, from_string_call, traefik_config, fill_call, clivars>>

Next == \E enable \in BOOLEAN : Generate(enable)

\* the label generator
Spec == Init /\ [][Next]_vars

RuleNext == \E typ \in RuleKinds, content \in Contents : NewRule(typ, content)

\* the rule model, the config being the default ServiceConfig("myapp")
RuleInit == Init /\ config = ServiceConfigDefault("myapp")

RuleSpec == RuleInit /\ [][RuleNext]_vars

\* a caller is about to run CombinedRule(*args)
CombinedInit ==
    /\ CliIdle
    /\ config = ServiceConfigDefault("myapp")
    /\ result = NoResults
    /\ previous = NoResults
    /\ rule_call = NoRuleCall
    /\ combined_call \in { [NoCombinedCall EXCEPT !.args = args] : args \in CombinedArgLists }
    /\ from_string_call = NoFromStringCall
    /\ traefik_config = NoProfile
    /\ fill_call = NoFillCall

\* the caller runs CombinedRule(*args)
NewCombinedRule ==
    /\ combined_call' = [called |-> TRUE, args |-> combined_call.args,
                         exc |-> CombinedRule_init(combined_call.args).exc,
                         msg |-> CombinedRule_init(combined_call.args).msg,
                         obj |-> CombinedRule_init(combined_call.args).obj]
    /\ UNCHANGED <<config, result, previous, rule_call, from_string_call, traefik_config, fill_call, clivars>>

\* the construction of combined rules
CombinedSpec == CombinedInit /\ [][NewCombinedRule]_vars

\* a caller is about to run CombinedRule.from_string(string)
FromStringInit ==
    /\ CliIdle
    /\ config = ServiceConfigDefault("myapp")
    /\ result = NoResults
    /\ previous = NoResults
    /\ rule_call = NoRuleCall
    /\ combined_call = NoCombinedCall
    /\ from_string_call \in { [NoFromStringCall EXCEPT !.string = string] : string \in FromStringInputs }
    /\ traefik_config = NoProfile
    /\ fill_call = NoFillCall

\* the caller runs CombinedRule.from_string(string)
FromString ==
    /\ from_string_call' = [called |-> TRUE, string |-> from_string_call.string,
                            exc |-> from_string(from_string_call.string).exc,
                            msg |-> from_string(from_string_call.string).msg,
                            obj |-> from_string(from_string_call.string).obj]
    /\ UNCHANGED <<config, result, previous, rule_call, combined_call, traefik_config, fill_call, clivars>>

\* the parsing of the "domain[/path]" notation
FromStringSpec == FromStringInit /\ [][FromString]_vars

\* a caller is about to run fill_missing_info(config, attr_name, value), the
\* user about to type the answers
FillInit ==
    /\ CliIdle
    /\ config \in FillConfigs
    /\ result = NoResults
    /\ previous = NoResults
    /\ rule_call = NoRuleCall
    /\ combined_call = NoCombinedCall
    /\ from_string_call = NoFromStringCall
    /\ traefik_config \in Profiles
    /\ \E i \in 1..Len(ServiceConfigFields), answers \in AnswerLists :
         \E value \in FillValues(config, ServiceConfigFields[i]) :
            fill_call = [NoFillCall EXCEPT !.attr_name = ServiceConfigFields[i],
                                           !.value = value, !.answers = answers]

\* the caller runs fill_missing_info(config, attr_name, value)
Fill ==
    LET outcome == fill_missing_info(config, fill_call.attr_name, fill_call.value, fill_call.answers)
    IN  /\ ~fill_call.called
        /\ config' = outcome.config
        /\ fill_call' = [fill_call EXCEPT !.called = TRUE, !.before = config,
                                         !.exc = outcome.exc, !.msg = outcome.msg,
                                         !.prompts = outcome.prompts,
                                         !.mandatory = outcome.mandatory]
        /\ UNCHANGED <<result, previous, rule_call, combined_call, from_string_call, traefik_config, clivars>>

\* the filling of one field
FillSpec == FillInit /\ [][Fill]_vars

\* a caller holds an incomplete ServiceConfig
PassInit ==
    /\ config \in FillConfigs
    /\ result = NoResults
    /\ previous = NoResults
    /\ rule_call = NoRuleCall
    /\ combined_call = NoCombinedCall
    /\ from_string_call = NoFromStringCall
    /\ traefik_config = NoProfile
    /\ fill_call = NoFillCall
    /\ CliIdle

\* gen_label_set_from_limited_info(config) is entered: asdict(config) is taken
PassBegin ==
    /\ pass_call.pc = 0
    /\ pass_call' = [pass_call EXCEPT !.pc = 1, !.snapshot = config]
    /\ UNCHANGED <<corevars, build_call, load_call, print_call, compose_call, main_call, loader, files_call>>

\* one turn of the loop: fill_missing_info(config, key, value), the user
\* typing the answers its prompts read
PassField ==
    /\ pass_call.pc \in 1..Len(ServiceConfigFields)
    /\ pass_call.exc = ""
    /\ \E answers \in AnswerLists :
         LET outcome == PassStep(config, pass_call.snapshot, pass_call.pc, answers)
         IN  /\ Consumed(outcome, answers)
             /\ config' = outcome.config
             /\ pass_call' = [pass_call EXCEPT
                                !.pc = IF outcome.exc = "" THEN @ + 1 ELSE @,
                                !.exc = outcome.exc, !.msg = outcome.msg,
                                !.prompts = @ \o outcome.prompts]
    /\ UNCHANGED <<result, previous, rule_call, combined_call, from_string_call, traefik_config, fill_call>>
    /\ UNCHANGED <<build_call, load_call, print_call, compose_call, main_call, loader, files_call>>

\* return gen_simple_label_set_for_service(config)
PassGenerate ==
    /\ pass_call.pc = Len(ServiceConfigFields) + 1
    /\ pass_call.exc = ""
    /\ config' = ConfigAfterGen(config)
    /\ pass_call' = [pass_call EXCEPT !.pc = @ + 1,
                                      !.result = gen_simple_label_set_for_service(config, TRUE),
                                      !.exc = gen_simple_label_set_for_service(config, TRUE).exc,
                                      !.msg = gen_simple_label_set_for_service(config, TRUE).msg]
    /\ UNCHANGED <<result, previous, rule_call, combined_call, from_string_call, traefik_config, fill_call>>
    /\ UNCHANGED <<build_call, load_call, print_call, compose_call, main_call, loader, files_call>>

PassNext == PassBegin \/ PassField \/ PassGenerate

\* the pass of gen_label_set_from_limited_info over one config
PassSpec == PassInit /\ [][PassNext]_vars

\* the core is idle: the default ServiceConfig, no call made
CoreIdle ==
    /\ config = ServiceConfigDefault("myapp")
    /\ result = NoResults
    /\ previous = NoResults
    /\ rule_call = NoRuleCall
    /\ combined_call = NoCombinedCall
    /\ from_string_call = NoFromStringCall
    /\ traefik_config = NoProfile
    /\ fill_call = NoFillCall

\* a loader has parsed a Traefik configuration file into data
BuildInit ==
    /\ CoreIdle
    /\ pass_call = NoPassCall
    /\ \/ \E n \in 0..MaxEntrypoints :
            \E names \in DistinctNames(n), configs \in [1..n -> EntryPointConfigs] :
                build_call = [NoBuildCall EXCEPT !.data =
                                ParsedConfig(TRUE, EntrypointDict(names, configs), FALSE, <<>>,
                                             TRUE, <<"letsencrypt">>, FALSE, <<>>)]
       \/ \E hE \in BOOLEAN, he \in BOOLEAN, hR \in BOOLEAN, hr \in BOOLEAN, resolvers \in ResolverLists :
            build_call = [NoBuildCall EXCEPT !.data = KeyedConfig(hE, he, hR, hr, resolvers)]
    /\ load_call = NoLoadCall
    /\ print_call = NoPrintCall
    /\ compose_call = NoComposeCall
    /\ main_call = NoMainCall
    /\ loader = NoLoader
    /\ files_call = NoFilesCall

\* the loader runs _build_traefik_config_from_dict(data)
Build ==
    /\ ~build_call.called
    /\ build_call' = [build_call EXCEPT !.called = TRUE,
                                        !.obj = build_traefik_config_from_dict(build_call.data)]
    /\ UNCHANGED <<corevars, pass_call, load_call, print_call, compose_call, main_call, loader, files_call>>

\* the building of the profile
BuildSpec == BuildInit /\ [][Build]_vars

\* a caller is about to run load_traefik_config(path)
LoadInit ==
    /\ CoreIdle
    /\ pass_call = NoPassCall
    /\ build_call = NoBuildCall
    /\ \E path \in ConfigPaths, file \in ConfigFiles, has_tomllib \in BOOLEAN :
         load_call = [NoLoadCall EXCEPT !.path = path, !.file = file, !.has_tomllib = has_tomllib]
    /\ print_call = NoPrintCall
    /\ compose_call = NoComposeCall
    /\ main_call = NoMainCall
    /\ loader = NoLoader
    /\ files_call = NoFilesCall

\* the caller runs load_traefik_config(path)
Load ==
    LET outcome == load_traefik_config(load_call.path, load_call.file, load_call.has_tomllib)
    IN  /\ ~load_call.called
        /\ load_call' = [load_call EXCEPT !.called = TRUE, !.exc = outcome.exc, !.msg = outcome.msg,
                                          !.obj = outcome.obj, !.loader = outcome.loader,
                                          !.opened = outcome.opened]
        /\ UNCHANGED <<corevars, pass_call, build_call, print_call, compose_call, main_call, loader, files_call>>

\* the loading of a Traefik configuration file
LoadSpec == LoadInit /\ [][Load]_vars

\* a caller is about to run print_labels(labels, formatter)
PrintInit ==
    /\ CoreIdle
    /\ pass_call = NoPassCall
    /\ build_call = NoBuildCall
    /\ load_call = NoLoadCall
    /\ \E n \in 0..MaxPairs, format \in FORMATS :
         \E titles \in [1..n -> Titles], lists \in [1..n -> LabelLists] :
            print_call = [NoPrintCall EXCEPT
                            !.labels = [i \in 1..n |-> LabelSet(titles[i], lists[i])],
                            !.format = format]
    /\ compose_call = NoComposeCall
    /\ main_call = NoMainCall
    /\ loader = NoLoader
    /\ files_call = NoFilesCall

\* the caller runs print_labels(labels, formatter)
PrintLabels ==
    /\ ~print_call.called
    /\ print_call' = [print_call EXCEPT !.called = TRUE,
                                        !.stdout = print_labels(print_call.labels, print_call.format)]
    /\ UNCHANGED <<corevars, pass_call, build_call, load_call, compose_call, main_call, loader, files_call>>

\* the printing of the label sets
PrintSpec == PrintInit /\ [][PrintLabels]_vars

\* a caller is about to run gen_label_set_from_compose(path)
ComposeInit ==
    /\ CoreIdle
    /\ pass_call = NoPassCall
    /\ build_call = NoBuildCall
    /\ load_call = NoLoadCall
    /\ print_call = NoPrintCall
    /\ \/ \E kind \in {"missing", "empty", "scalar", "list", "mapping"} :
            compose_call = [NoComposeCall EXCEPT !.file = ComposeFile(kind, FALSE, <<>>)]
       \/ \E n \in 0..MaxServices, answer \in SelectionAnswers, docker_module \in BOOLEAN, image \in ImageOutcomes :
            \E defs \in [1..n -> ServiceDefs] :
                compose_call = [NoComposeCall EXCEPT
                    !.file = ComposeFile("mapping", TRUE,
                                [i \in 1..n |-> Service(ServiceNames[i], defs[i].kind, defs[i].has_build,
                                                        defs[i].build, defs[i].has_image)]),
                    !.answer = answer, !.docker_module = docker_module, !.image = image]
    /\ main_call = NoMainCall
    /\ loader = NoLoader
    /\ files_call = NoFilesCall

\* the caller runs gen_label_set_from_compose(path)
Compose ==
    LET outcome == gen_label_set_from_compose(compose_call.path, compose_call.file, compose_call.answer,
                                              compose_call.docker_module, compose_call.image)
    IN  /\ ~compose_call.called
        /\ compose_call' = [compose_call EXCEPT !.called = TRUE, !.exc = outcome.exc, !.msg = outcome.msg,
                                                !.returned = outcome.returned, !.title = outcome.title,
                                                !.label_set = outcome.label_set]
        /\ UNCHANGED <<corevars, pass_call, build_call, load_call, print_call, main_call, loader, files_call>>

\* the reading of a Compose file
ComposeSpec == ComposeInit /\ [][Compose]_vars

\* a Loader has been constructed for a with block
LoaderInit ==
    /\ CoreIdle
    /\ pass_call = NoPassCall
    /\ build_call = NoBuildCall
    /\ load_call = NoLoadCall
    /\ print_call = NoPrintCall
    /\ compose_call = NoComposeCall
    /\ main_call = NoMainCall
    /\ loader = NoLoader
    /\ files_call = NoFilesCall

\* the threads of a Loader touch nothing else
LoaderUnchanged ==
    UNCHANGED <<corevars, pass_call, build_call, load_call, print_call, compose_call, main_call, files_call>>

\* __enter__: self.start() starts the animation thread
LoaderEnter ==
    /\ loader.main = "new"
    /\ loader' = [loader EXCEPT !.main = "body", !.animate = "check"]
    /\ LoaderUnchanged

\* the with block ends, normally or raising: __exit__ calls
\* self.stop(error=True) or self.stop()
LoaderExit(raised) ==
    /\ loader.main = "body"
    /\ loader' = [loader EXCEPT !.main = "stop", !.error = raised]
    /\ LoaderUnchanged

\* stop: self.done = True
LoaderStopSetDone ==
    /\ loader.main = "stop"
    /\ loader' = [loader EXCEPT !.main = "done_set", !.done = TRUE]
    /\ LoaderUnchanged

\* stop: print("\r" + " " * cols, end="", flush=True)
LoaderStopClear ==
    /\ loader.main = "done_set"
    /\ loader' = [loader EXCEPT !.main = "cleared", !.terminal = Append(@, "clear")]
    /\ LoaderUnchanged

\* stop: the final print of end, or of errend on error
LoaderStopFinal ==
    /\ loader.main = "cleared"
    /\ loader' = [loader EXCEPT !.main = "exited",
                                !.terminal = Append(@, IF loader.error THEN "errend" ELSE "end")]
    /\ LoaderUnchanged

\* _animate: `if self.done: break`
AnimateCheck ==
    /\ loader.animate = "check"
    /\ loader.done \/ loader.frames < MaxFrames
    /\ loader' = [loader EXCEPT !.animate = IF loader.done THEN "ended" ELSE "print"]
    /\ LoaderUnchanged

\* _animate: the print of one spinner frame
AnimatePrint ==
    /\ loader.animate = "print"
    /\ loader' = [loader EXCEPT !.animate = "sleep", !.frames = @ + 1,
                                !.terminal = Append(@, "frame")]
    /\ LoaderUnchanged

\* _animate: sleep(self.timeout) is over
AnimateSleep ==
    /\ loader.animate = "sleep"
    /\ loader' = [loader EXCEPT !.animate = "check"]
    /\ LoaderUnchanged

LoaderNext ==
    \/ LoaderEnter
    \/ \E raised \in BOOLEAN : LoaderExit(raised)
    \/ LoaderStopSetDone
    \/ LoaderStopClear
    \/ LoaderStopFinal
    \/ AnimateCheck
    \/ AnimatePrint
    \/ AnimateSleep

\* the two threads of a Loader, interleaved
LoaderSpec == LoaderInit /\ [][LoaderNext]_vars

\* main is about to run labels_from_compose_files(files)
FilesInit ==
    /\ CoreIdle
    /\ pass_call = NoPassCall
    /\ build_call = NoBuildCall
    /\ load_call = NoLoadCall
    /\ print_call = NoPrintCall
    /\ compose_call = NoComposeCall
    /\ main_call = NoMainCall
    /\ loader = NoLoader
    /\ \E n \in 0..MaxFiles : \E outcomes \in [1..n -> FileOutcomes] :
         files_call = [NoFilesCall EXCEPT !.files = SubSeq(Filepaths, 1, n), !.outcomes = outcomes]

\* one turn of the loop: gen_label_set_from_compose(filepath) in its try
FilesAttempt ==
    /\ files_call.pc \in 1..Len(files_call.files)
    /\ files_call.exc = ""
    /\ files_call' = FilesTurn(files_call, files_call.files[files_call.pc],
                               files_call.outcomes[files_call.pc])
    /\ UNCHANGED <<corevars, pass_call, build_call, load_call, print_call, compose_call, main_call, loader>>

\* return labels
FilesReturn ==
    /\ files_call.pc = Len(files_call.files) + 1
    /\ ~files_call.returned
    /\ files_call' = [files_call EXCEPT !.returned = TRUE]
    /\ UNCHANGED <<corevars, pass_call, build_call, load_call, print_call, compose_call, main_call, loader>>

FilesNext == FilesAttempt \/ FilesReturn

\* the loop over the Compose files of the command line
FilesSpec == FilesInit /\ [][FilesNext]_vars

MainUnchanged == UNCHANGED <<corevars, pass_call, build_call, load_call, print_call, compose_call, loader, files_call>>

\* main() has parsed the command line
MainInit ==
    /\ CoreIdle
    /\ pass_call = NoPassCall
    /\ build_call = NoBuildCall
    /\ load_call = NoLoadCall
    /\ print_call = NoPrintCall
    /\ compose_call = NoComposeCall
    /\ loader = NoLoader
    /\ files_call = NoFilesCall
    /\ \E version \in BOOLEAN, interactive \in BOOLEAN, container \in ContainerOptions :
       \E format \in FORMATS, traefik \in TraefikOptions, files \in FileLists :
       \E load \in LoadOutcomes, handler \in HandlerOutcomes :
         main_call = [NoMainCall EXCEPT
                        !.pc = "version",
                        !.args = Args(version, interactive, container, format, traefik, files),
                        !.load = load, !.handler = handler]

\* if args.version: print and return
MainVersion ==
    /\ main_call.pc = "version"
    /\ main_call' =
         IF main_call.args.version
         THEN [main_call EXCEPT !.pc = "returned",
                                !.stdout = Append(@, "Laebelmaker v" \o __version__ \o ", ")]
         ELSE [main_call EXCEPT !.pc = "load"]
    /\ MainUnchanged

\* if args.traefik_config: load it, return when it cannot be loaded
MainLoadConfig ==
    /\ main_call.pc = "load"
    /\ main_call' =
         IF ~Given(main_call.args.traefik_config)
         THEN [main_call EXCEPT !.pc = "mode"]
         ELSE LET call == Call("load_traefik_config", main_call.args.traefik_config.value, <<>>, "", "")
              IN  IF main_call.load = "NoInformationException"
                  THEN [main_call EXCEPT !.pc = "returned", !.calls = Append(@, call),
                                         !.stdout = Append(@, "Error loading Traefik config: ")]
                  ELSE [main_call EXCEPT !.pc = "mode", !.calls = Append(@, call),
                                         !.traefik_config = "TraefikConfig",
                                         !.stdout = Append(@, "Loaded Traefik config from "
                                                \o Repr(main_call.args.traefik_config.value))]
    /\ MainUnchanged

\* the if/elif chain: the handler of the mode, or print_help and return
MainMode ==
    /\ main_call.pc = "mode"
    /\ main_call' =
         LET mode == Mode(main_call.args)
         IN  IF mode = "help"
             THEN [main_call EXCEPT !.pc = "returned",
                                    !.calls = Append(@, Call("print_help", "", <<>>, "", ""))]
             ELSE IF main_call.handler.exc # ""
             THEN [main_call EXCEPT !.pc = "raised", !.exc = main_call.handler.exc,
                     !.calls = Append(@, HandlerCall(main_call.args, mode, main_call.traefik_config))]
             ELSE [main_call EXCEPT !.pc = "labels", !.labels = main_call.handler.labels,
                     !.calls = Append(@, HandlerCall(main_call.args, mode, main_call.traefik_config))]
    /\ MainUnchanged

\* if labels: print_labels(labels, formatter), else the two lines of failure
MainOutput ==
    /\ main_call.pc = "labels"
    /\ main_call' =
         IF main_call.labels # <<>>
         THEN [main_call EXCEPT !.pc = "returned",
                 !.calls = Append(@, Call("print_labels", "", <<>>, "", main_call.args.format)),
                 !.stdout = @ \o print_labels(main_call.labels, main_call.args.format)]
         ELSE [main_call EXCEPT !.pc = "returned",
                 !.stdout = @ \o <<"Failed to produce output.",
                                   "You can use 'laebelmaker -i' to generate labels manually">>]
    /\ MainUnchanged

MainNext == MainVersion \/ MainLoadConfig \/ MainMode \/ MainOutput

\* one run of the command line
MainSpec == MainInit /\ [][MainNext]_vars

---------------------------------------------------------------------------
(* Properties of gen_simple_label_set_for_service, checked under Spec *)

\* the call with this enable flag has been made and returned
Returned(enable) == result[enable].called /\ result[enable].exc = ""

\* the elements of a list, as a set
Elements(list) == { list[i] : i \in 1..Len(list) }

\* the config is the HTTP-only one: a rule, neither HTTPS flag
HttpOnly == Truthy(config.rule) /\ ~config.https_enabled /\ ~config.https_redirection

\* C1: with a rule, https_redirection, a non-empty tls_resolver and port > 0 the
\* call returns exactly the ten directives of the redirect set-up, in the fixed
\* order, the port directive targeting the plain name.
C1_RedirectLabelSet ==
    ( /\ result[TRUE].called
      /\ Truthy(config.rule)
      /\ config.https_redirection
      /\ config.tls_resolver # ""
      /\ config.port > 0 )
    => /\ result[TRUE].exc = ""
       /\ result[TRUE].label_set =
            << "traefik.enable=true",
               "traefik.http.routers." \o config.deploy_name \o ".rule=" \o str(config.rule),
               "traefik.http.routers." \o config.deploy_name \o ".entrypoints=" \o config.web_entrypoint,
               "traefik.http.routers." \o config.deploy_name \o "-https.rule=" \o str(config.rule),
               "traefik.http.routers." \o config.deploy_name \o "-https.entrypoints="
                    \o config.websecure_entrypoint,
               "traefik.http.routers." \o config.deploy_name \o ".middlewares="
                    \o config.deploy_name \o "-redir",
               "traefik.http.middlewares." \o config.deploy_name
                    \o "-redir.redirectscheme.scheme=https",
               "traefik.http.routers." \o config.deploy_name \o "-https.tls=true",
               "traefik.http.routers." \o config.deploy_name \o "-https.tls.certresolver="
                    \o config.tls_resolver,
               "traefik.http.services." \o config.deploy_name \o ".loadbalancer.server.port="
                    \o ToString(config.port) >>

C1_Witness ==
    /\ Returned(TRUE)
    /\ config.https_redirection
    /\ config.tls_resolver = "letsencrypt"
    /\ config.web_entrypoint = "http-custom"
    /\ config.port = 8080
    /\ Len(result[TRUE].label_set) = 10

\* C2: for an HTTP-only config the call returns the enable directive and the
\* router rule directive, and no directive whose text includes "-https" or
\* "tls", whatever tls_resolver and the entry points are.
C2_HttpOnlyNoHttps ==
    (result[TRUE].called /\ HttpOnly)
    => /\ result[TRUE].exc = ""
       /\ "traefik.enable=true" \in Elements(result[TRUE].label_set)
       /\ ("traefik.http.routers." \o config.deploy_name \o ".rule=" \o str(config.rule))
            \in Elements(result[TRUE].label_set)
       /\ \A label \in Elements(result[TRUE].label_set) :
            ~Contains(label, "-https") /\ ~Contains(label, "tls")

C2_Witness ==
    /\ Returned(TRUE)
    /\ HttpOnly
    /\ config.tls_resolver = "letsencrypt"
    /\ config.web_entrypoint = "http-custom"
    /\ config.websecure_entrypoint = "https-custom"

\* C3: for an HTTP-only config the output contains the HTTP router's
\* entry-point directive routers.<name>.entrypoints=<web_entrypoint>.
C3_HttpOnlyEntrypoint ==
    (result[TRUE].called /\ HttpOnly)
    => /\ result[TRUE].exc = ""
       /\ ("traefik.http.routers." \o config.deploy_name \o ".entrypoints="
              \o config.web_entrypoint) \in Elements(result[TRUE].label_set)

\* C4: with https_enabled, no redirection, a non-empty tls_resolver and
\* port > 0 the output has the HTTPS router (rule, entry point, tls,
\* certresolver), the port directive on services.<name>-https, no directive
\* starting with routers.<name>. and no redirectscheme middleware.
C4_HttpsOnly ==
    ( /\ result[TRUE].called
      /\ Truthy(config.rule)
      /\ config.https_enabled
      /\ ~config.https_redirection
      /\ config.tls_resolver # ""
      /\ config.port > 0 )
    => /\ result[TRUE].exc = ""
       /\ { "traefik.http.routers." \o config.deploy_name \o "-https.rule=" \o str(config.rule),
            "traefik.http.routers." \o config.deploy_name \o "-https.entrypoints="
                 \o config.websecure_entrypoint,
            "traefik.http.routers." \o config.deploy_name \o "-https.tls=true",
            "traefik.http.routers." \o config.deploy_name \o "-https.tls.certresolver="
                 \o config.tls_resolver,
            "traefik.http.services." \o config.deploy_name \o "-https.loadbalancer.server.port="
                 \o ToString(config.port) } \subseteq Elements(result[TRUE].label_set)
       /\ \A label \in Elements(result[TRUE].label_set) :
            /\ ~StartsWith(label, "traefik.http.routers." \o config.deploy_name \o ".")
            /\ ~Contains(label, "redirectscheme")

\* the indices of the directives that set a load-balancer port
PortDirectives(label_set) ==
    { i \in 1..Len(label_set) : Contains(label_set[i], "loadbalancer.server.port") }

\* C5: a returned list has a loadbalancer.server.port directive iff
\* config.port > 0; it is then the only one, the last element, and carries
\* config.port.
C5_PortDirective ==
    \A enable \in BOOLEAN :
        Returned(enable) =>
            LET label_set == result[enable].label_set IN
            /\ (PortDirectives(label_set) # {}) <=> (config.port > 0)
            /\ config.port > 0 =>
                 /\ PortDirectives(label_set) = {Len(label_set)}
                 /\ EndsWith(label_set[Len(label_set)],
                             ".loadbalancer.server.port=" \o ToString(config.port))

C5_Witness ==
    /\ Returned(TRUE)
    /\ config.port = 8080
    /\ PortDirectives(result[TRUE].label_set) = {Len(result[TRUE].label_set)}

\* C6: with config.rule = None the call fails with a ValueError whose message
\* contains "cannot be None", and returns no list.
C6_MissingRule ==
    \A enable \in BOOLEAN :
        (result[enable].called /\ config.rule = None)
        => /\ IsInstance(result[enable].exc, "ValueError")
           /\ Contains(result[enable].msg, "cannot be None")
           /\ result[enable].label_set = <<>>

\* C7: when HTTPS is requested (https_redirection, or https_enabled without
\* it) and tls_resolver is empty, the call fails with a ValueError whose
\* message mentions "TLS resolver", and returns no list.
C7_MissingTLSResolver ==
    \A enable \in BOOLEAN :
        ( /\ result[enable].called
          /\ Truthy(config.rule)
          /\ (config.https_redirection \/ config.https_enabled)
          /\ config.tls_resolver = "" )
        => /\ IsInstance(result[enable].exc, "ValueError")
           /\ Contains(result[enable].msg, "TLS resolver")
           /\ result[enable].label_set = <<>>

\* C8: when generation succeeds, the list returned with enable=False is the
\* list returned with enable=True without its first element, the enable
\* directive: it has no enable directive and is not empty.
C8_EnableFalse ==
    (result[TRUE].called /\ result[FALSE].called)
    => /\ Returned(TRUE) <=> Returned(FALSE)
       /\ Returned(TRUE) =>
            /\ Head(result[TRUE].label_set) = "traefik.enable=true"
            /\ result[FALSE].label_set = Tail(result[TRUE].label_set)
            /\ "traefik.enable=true" \notin Elements(result[FALSE].label_set)
            /\ Len(result[FALSE].label_set) > 0

C8_Witness ==
    /\ Returned(TRUE)
    /\ Returned(FALSE)
    /\ config.https_redirection
    /\ Len(result[FALSE].label_set) = 9

---------------------------------------------------------------------------
(* Properties of Rule, checked under RuleSpec *)

\* the content is one the kind accepts
ValidArity(typ, content) ==
    Len(content) >= 1 /\ (typ = "Headers" => Len(content) = 2)

\* C10: Rule(kind, *content) fails with UnknownRuleTypeException for every
\* kind that is not Host, Path, PathPrefix or Headers, whatever the content,
\* empty content included; for the four kinds and a valid arity it stores kind
\* and content.
C10_UnknownRuleType ==
    rule_call.called =>
        /\ rule_call.typ \notin {"Host", "Path", "PathPrefix", "Headers"}
             => /\ rule_call.exc = "UnknownRuleTypeException"
                /\ rule_call.obj = None
        /\ ( /\ rule_call.typ \in {"Host", "Path", "PathPrefix", "Headers"}
             /\ ValidArity(rule_call.typ, rule_call.content) )
             => /\ rule_call.exc = ""
                /\ rule_call.obj.cls = "Rule"
                /\ rule_call.obj.typ = rule_call.typ
                /\ rule_call.obj.content = rule_call.content

C10_Witness ==
    /\ rule_call.called
    /\ rule_call.typ = "InvalidType"
    /\ rule_call.content = <<>>
    /\ rule_call.exc = "UnknownRuleTypeException"


\* C11: with a valid kind, Rule(...) fails with a ValueError when the content
\* is empty (message "must have content") or when the kind is Headers and the
\* content has not exactly 2 elements (message "only key and value"); the
\* other kinds accept any content of 1 or more elements.
C11_InvalidArity ==
    (rule_call.called /\ rule_call.typ \in {"Host", "Path", "PathPrefix", "Headers"})
    => /\ Len(rule_call.content) = 0
            => /\ IsInstance(rule_call.exc, "ValueError")
               /\ rule_call.typ # "Headers" => Contains(rule_call.msg, "must have content")
       /\ (rule_call.typ = "Headers" /\ Len(rule_call.content) \notin {0, 2})
            => /\ IsInstance(rule_call.exc, "ValueError")
               /\ Contains(rule_call.msg, "only key and value")
       /\ (rule_call.typ # "Headers" /\ Len(rule_call.content) >= 1)
            => rule_call.exc = ""

---------------------------------------------------------------------------
(* Properties of CombinedRule, checked under CombinedSpec *)

\* the arguments are r1, op1, r2, ..., rn: Rules with a string between each two
Alternating(args) ==
    /\ Len(args) % 2 = 1
    /\ \A i \in 1..Len(args) : args[i].t = (IF i % 2 = 1 THEN "Rule" ELSE "str")

\* the text the claim gives a simple Rule: kind, "(", the content elements
\* each between grave accents and joined by ", ", ")"
RenderedRule(rule) ==
    rule.typ \o "(" \o Join([i \in 1..Len(rule.content) |-> BT \o rule.content[i] \o BT], ", ") \o ")"

\* C12: rendering is structural: a Rule renders as kind(`c1`, ..., `cn`), and
\* CombinedRule(r1, op1, r2, ..., rn) renders as "(" r1 " op1 " r2 ... rn ")",
\* every child and every operator once, in construction order.
C12_StructuralRendering ==
    (combined_call.called /\ Alternating(combined_call.args))
    => /\ combined_call.exc = ""
       /\ \A i \in 1..Len(combined_call.args) :
            combined_call.args[i].t = "Rule"
                => str(combined_call.args[i].rule) = RenderedRule(combined_call.args[i].rule)
       /\ str(combined_call.obj) =
            "(" \o Join([i \in 1..Len(combined_call.args) |->
                            IF combined_call.args[i].t = "Rule"
                            THEN RenderedRule(combined_call.args[i].rule)
                            ELSE combined_call.args[i].s], " ") \o ")"

C12_Witness ==
    /\ combined_call.called
    /\ Alternating(combined_call.args)
    /\ Len(combined_call.args) = 5
    /\ combined_call.args[2].s = "&&"
    /\ combined_call.args[4].s = "||"
    /\ combined_call.args[5].rule.typ = "Headers"
    /\ Len(combined_call.obj.rules) = 3

\* C13: every CombinedRule the constructor builds, from any mix of Rule and
\* string arguments, has at least one child rule and one operator fewer than
\* it has rules.
C13_OperatorsInvariant ==
    (combined_call.called /\ combined_call.exc = "")
    => /\ Len(combined_call.obj.rules) >= 1
       /\ Len(combined_call.obj.operators) = Len(combined_call.obj.rules) - 1

\* C14: CombinedRule(*args) fails with TypeError ("must be either strings or
\* Rules") if an argument is neither a string nor a Rule; otherwise operators
\* holds the string arguments and rules the Rule arguments, each in argument
\* order.
C14_ArgumentsSorted ==
    combined_call.called =>
        IF \E i \in 1..Len(combined_call.args) : combined_call.args[i].t \notin {"str", "Rule"}
        THEN /\ combined_call.exc = "TypeError"
             /\ Contains(combined_call.msg, "must be either strings or Rules")
             /\ combined_call.obj = None
        ELSE /\ combined_call.exc = ""
             /\ combined_call.obj.cls = "CombinedRule"
             /\ LET strings == SelectSeq(combined_call.args, LAMBDA a : a.t = "str")
                    rules == SelectSeq(combined_call.args, LAMBDA a : a.t = "Rule")
                IN  /\ combined_call.obj.operators = [i \in 1..Len(strings) |-> strings[i].s]
                    /\ combined_call.obj.rules = [i \in 1..Len(rules) |-> rules[i].rule]

C14_Witness ==
    /\ combined_call.called
    /\ Len(combined_call.args) = 4
    /\ combined_call.args[1].t = "str"
    /\ combined_call.args[2].t = "Rule"
    /\ combined_call.args[3].t = "Rule"
    /\ combined_call.args[4].s = "||"
    /\ combined_call.obj.operators = <<combined_call.args[1].s, "||">>

C14_WitnessTypeError ==
    /\ combined_call.called
    /\ combined_call.exc = "TypeError"
    /\ Len(combined_call.args) = 2

---------------------------------------------------------------------------
(* Properties of CombinedRule.from_string, checked under FromStringSpec *)

\* C15: for a string with at most one "/": "domain/path", both parts
\* non-empty, gives a CombinedRule rendering as
\* (Host(`domain`) && PathPrefix(`/path`)); "domain" and "domain/" give the
\* simple rule Host(`domain`); "/path" gives the simple rule
\* PathPrefix(`/path`).
C15_PolicyTable ==
    from_string_call.called =>
        \A domain \in Segments \ {""}, path \in Segments \ {""} :
            /\ from_string_call.string = domain \o "/" \o path
                 => /\ from_string_call.exc = ""
                    /\ from_string_call.obj.cls = "CombinedRule"
                    /\ str(from_string_call.obj)
                         = "(Host(" \o BT \o domain \o BT \o ") && PathPrefix(" \o BT \o "/" \o path \o BT \o "))"
            /\ from_string_call.string \in {domain, domain \o "/"}
                 => /\ from_string_call.exc = ""
                    /\ from_string_call.obj.cls = "Rule"
                    /\ str(from_string_call.obj) = "Host(" \o BT \o domain \o BT \o ")"
            /\ from_string_call.string = "/" \o path
                 => /\ from_string_call.exc = ""
                    /\ from_string_call.obj.cls = "Rule"
                    /\ str(from_string_call.obj) = "PathPrefix(" \o BT \o "/" \o path \o BT \o ")"

C15_Witness ==
    /\ from_string_call.called
    /\ from_string_call.string = "example.com/api"
    /\ from_string_call.obj.cls = "CombinedRule"
    /\ Len(from_string_call.obj.rules) = 2

\* C16: from_string fails with NoInformationException, returning no rule, for
\* "" and for "/"; it never returns a Host rule with empty content.
C16_NoInformation ==
    from_string_call.called =>
        /\ from_string_call.string \in {"", "/"}
             => /\ from_string_call.exc = "NoInformationException"
                /\ from_string_call.obj = None
        /\ ~( /\ from_string_call.exc = ""
              /\ from_string_call.obj.cls = "Rule"
              /\ from_string_call.obj.typ = "Host"
              /\ from_string_call.obj.content = <<"">> )

---------------------------------------------------------------------------
(* Properties of fill_missing_info, checked under FillSpec *)

\* the field is one the claims call skipped, judged on the config as the call
\* found it
Skipped ==
    \/ fill_call.attr_name \in {"deploy_name", "rule"}
    \/ /\ fill_call.attr_name \in {"tls_resolver", "web_entrypoint", "websecure_entrypoint"}
       /\ ~fill_call.before.https_redirection
    \/ fill_call.attr_name = "port" /\ fill_call.before.port > 0

C18_ProfileDefaults ==
    ( /\ fill_call.called
      /\ traefik_config.cls = "TraefikConfig"
      /\ fill_call.before.https_enabled \/ fill_call.before.https_redirection
      /\ fill_call.attr_name \in {"web_entrypoint", "websecure_entrypoint", "tls_resolver"} )
    => /\ fill_call.prompts = <<>>
       /\ fill_call.attr_name = "web_entrypoint"
            => config.web_entrypoint = traefik_config.default_web_entrypoint
       /\ fill_call.attr_name = "websecure_entrypoint"
            => config.websecure_entrypoint = traefik_config.default_websecure_entrypoint
       /\ fill_call.attr_name = "tls_resolver"
            => config.tls_resolver = traefik_config.default_tls_resolver

\* C19: for a field not skipped whose value is empty/zero, the ask prompt is
\* repeated until an answer is non-empty, and only that is stored: every
\* answer before the last prompt's is empty, the last prompt's is not, and
\* the field ends non-empty; for a field whose value is non-empty the change
\* prompt (prefilled with the value) is shown exactly once and what it
\* returns is stored.
C19_MandatoryField ==
    (fill_call.called /\ ~Skipped /\ fill_call.exc = "")
    => IF ~PyTruthy(fill_call.value)
       THEN /\ Len(fill_call.prompts) >= 1
            /\ \A j \in 1..(Len(fill_call.prompts) - 1) : fill_call.answers[j] = ""
            /\ fill_call.answers[Len(fill_call.prompts)] # ""
            /\ fill_call.mandatory = Len(fill_call.prompts) - 1
            /\ PyTruthy(GetAttr(config, fill_call.attr_name))
       ELSE /\ Len(fill_call.prompts) = 1
            /\ fill_call.prompts[1].prefill = PyToStr(fill_call.value)
            /\ GetAttr(config, fill_call.attr_name)
                 = input_item(fill_call.value.t, fill_call.answers[1]).value

\* C20: when fill_missing_info stores url, config.rule afterwards renders as
\* CombinedRule.from_string(config.url) does, whatever rule was set before;
\* a NoInformationException of from_string leaves the call; filling another
\* field leaves config.rule as it was.
C20_RuleDerivedFromUrl ==
    fill_call.called =>
        /\ (fill_call.attr_name = "url" /\ fill_call.exc = "")
             => /\ from_string(config.url).exc = ""
                /\ config.rule # None
                /\ str(config.rule) = str(from_string(config.url).obj)
        /\ (fill_call.attr_name = "url" /\ fill_call.exc # "EOFError"
                /\ from_string(config.url).exc = "NoInformationException")
             => fill_call.exc = "NoInformationException"
        /\ fill_call.attr_name # "url" => config.rule = fill_call.before.rule

C20_Witness ==
    /\ fill_call.called
    /\ fill_call.attr_name = "url"
    /\ fill_call.before.url = "old.example.com"
    /\ fill_call.before.rule # None
    /\ config.url = "example.com/api"
    /\ config.rule.cls = "CombinedRule"
    /\ str(config.rule) # str(fill_call.before.rule)

C20_WitnessPropagates ==
    /\ fill_call.called
    /\ fill_call.attr_name = "url"
    /\ config.url = "/"
    /\ fill_call.exc = "NoInformationException"

---------------------------------------------------------------------------
(* More than one "/" (FromStringSpec) *)

\* the number of times the character c occurs in s
RECURSIVE Count(_, _)
Count(s, c) ==
    IF Len(s) = 0 THEN 0
    ELSE (IF SubSeq(s, 1, 1) = c THEN 1 ELSE 0) + Count(SubSeq(s, 2, Len(s)), c)

\* C27: from_string fails with NoInformationException, returning no rule, for
\* every string with more than one "/", whatever its segments hold.
C27_MoreThanOneSlash ==
    (from_string_call.called /\ Count(from_string_call.string, "/") > 1)
    => /\ from_string_call.exc = "NoInformationException"
       /\ from_string_call.obj = None

C27_Witness ==
    /\ from_string_call.called
    /\ from_string_call.string = "example.com/api/v1"
    /\ from_string_call.exc = "NoInformationException"

---------------------------------------------------------------------------
(* Properties of the pass of gen_label_set_from_limited_info (PassSpec) *)

\* the loop over the fields has ended without an exception
PassFilled == pass_call.pc > Len(ServiceConfigFields) /\ ~pass_call.result.called

\* the fields prompted for so far, in the order of the prompts
PromptedFields == [i \in 1..Len(pass_call.prompts) |-> pass_call.prompts[i].name]

\* the position of a field in the declaration order
FieldIndex(attr_name) == CHOOSE i \in 1..Len(ServiceConfigFields) : ServiceConfigFields[i] = attr_name

\* C21: from any incomplete ServiceConfig, once the loop over the fields has
\* ended without error the config is ready: rule is set, and https_redirection
\* implies a non-empty tls_resolver; the generation that follows returns a
\* label set, failing neither for a missing rule nor for a missing resolver.
C21_FilledIsReady ==
    /\ (pass_call.pc > Len(ServiceConfigFields))
         => /\ config.rule # None
            /\ config.https_redirection => config.tls_resolver # ""
    /\ pass_call.result.called
         => /\ pass_call.result.exc = ""
            /\ pass_call.exc = ""
            /\ Len(pass_call.result.label_set) >= 2

C21_Witness ==
    /\ pass_call.pc = Len(ServiceConfigFields) + 2
    /\ pass_call.snapshot.rule = None
    /\ pass_call.snapshot.url = ""
    /\ config.https_redirection
    /\ config.tls_resolver = "1"
    /\ pass_call.result.exc = ""
    /\ Len(pass_call.prompts) = 7

\* C28: the fields are visited one at a time in declaration order, so
\* https_redirection is answered before the three HTTPS-related fields, and
\* each of those three is prompted for exactly when the https_redirection
\* the config holds at that moment (stored earlier in this pass) is true,
\* whatever the value was when the pass started.
C28_LiveRedirection ==
    /\ \A i, j \in 1..Len(PromptedFields) :
         i < j => FieldIndex(PromptedFields[i]) <= FieldIndex(PromptedFields[j])
    /\ \A attr_name \in {"web_entrypoint", "websecure_entrypoint", "tls_resolver"} :
         /\ (pass_call.pc > FieldIndex(attr_name))
              => /\ \E i \in 1..Len(PromptedFields) : PromptedFields[i] = "https_redirection"
                 /\ (\E i \in 1..Len(PromptedFields) : PromptedFields[i] = attr_name)
                      <=> config.https_redirection
         /\ (\E i \in 1..Len(PromptedFields) : PromptedFields[i] = attr_name)
              => /\ config.https_redirection
                 /\ \E j \in 1..Len(PromptedFields) :
                      /\ PromptedFields[j] = "https_redirection"
                      /\ \A i \in 1..Len(PromptedFields) : PromptedFields[i] = attr_name => j < i

C28_Witness ==
    /\ pass_call.pc = Len(ServiceConfigFields) + 1
    /\ ~pass_call.snapshot.https_redirection
    /\ config.https_redirection
    /\ \E i \in 1..Len(PromptedFields) : PromptedFields[i] = "tls_resolver"

C28_WitnessTurnedOff ==
    /\ pass_call.pc = Len(ServiceConfigFields) + 1
    /\ pass_call.snapshot.https_redirection
    /\ ~config.https_redirection
    /\ ~\E i \in 1..Len(PromptedFields) : PromptedFields[i] = "tls_resolver"

---------------------------------------------------------------------------
(* Properties of _build_traefik_config_from_dict (BuildSpec) *)

\* the entry points the file declares, under the camelCase key or else the
\* lowercase one
Declared ==
    IF build_call.data.has_entryPoints THEN build_call.data.entryPoints
    ELSE IF build_call.data.has_entrypoints THEN build_call.data.entrypoints ELSE <<>>

\* the resolvers the file declares
DeclaredResolvers ==
    IF build_call.data.has_certificatesResolvers THEN build_call.data.certificatesResolvers
    ELSE IF build_call.data.has_certificatesresolvers THEN build_call.data.certificatesresolvers
    ELSE <<>>

\* the names of the declared entry points whose address is on this port
NamesOnPort(port) ==
    { Declared[i].name : i \in { j \in 1..Len(Declared) :
        Declared[j].has_address /\ EndsWith(Declared[j].address, ":" \o port) } }

DeclaredNames == { Declared[i].name : i \in 1..Len(Declared) }

\* C22: the defaults follow a fixed precedence: the web default is an entry
\* point on port 80, else "web" if declared, else "http" if declared, else the
\* first declared entry point, and "web" when none is declared; the websecure
\* default is an entry point on port 443, else "websecure", else "https", else
\* the second declared entry point, else "websecure"; the resolver default is
\* the first declared resolver or ""; the camelCase and the lowercase
\* top-level keys are both read.
C22_DefaultPrecedence ==
    build_call.called =>
        /\ build_call.obj.cls = "TraefikConfig"
        /\ build_call.obj.entrypoints = [i \in 1..Len(Declared) |-> Declared[i].name]
        /\ build_call.obj.tls_resolvers = DeclaredResolvers
        /\ IF NamesOnPort("80") # {} THEN build_call.obj.default_web_entrypoint \in NamesOnPort("80")
           ELSE IF "web" \in DeclaredNames THEN build_call.obj.default_web_entrypoint = "web"
           ELSE IF "http" \in DeclaredNames THEN build_call.obj.default_web_entrypoint = "http"
           ELSE IF Len(Declared) >= 1 THEN build_call.obj.default_web_entrypoint = Declared[1].name
           ELSE build_call.obj.default_web_entrypoint = "web"
        /\ IF NamesOnPort("443") # {} THEN build_call.obj.default_websecure_entrypoint \in NamesOnPort("443")
           ELSE IF "websecure" \in DeclaredNames THEN build_call.obj.default_websecure_entrypoint = "websecure"
           ELSE IF "https" \in DeclaredNames THEN build_call.obj.default_websecure_entrypoint = "https"
           ELSE IF Len(Declared) >= 2 THEN build_call.obj.default_websecure_entrypoint = Declared[2].name
           ELSE build_call.obj.default_websecure_entrypoint = "websecure"
        /\ build_call.obj.default_tls_resolver
             = (IF Len(DeclaredResolvers) >= 1 THEN DeclaredResolvers[1] ELSE "")

C22_Witness ==
    /\ build_call.called
    /\ Len(Declared) = 3
    /\ Declared[1].name = "web" /\ ~Declared[1].has_address
    /\ Declared[2].name = "public" /\ Declared[2].address = ":80"
    /\ Declared[3].name = "secure" /\ Declared[3].address = "0.0.0.0:443"
    /\ build_call.obj.default_web_entrypoint = "public"
    /\ build_call.obj.default_websecure_entrypoint = "secure"

C22_WitnessLowercase ==
    /\ build_call.called
    /\ ~build_call.data.has_entryPoints /\ build_call.data.has_entrypoints
    /\ ~build_call.data.has_certificatesResolvers /\ build_call.data.has_certificatesresolvers
    /\ build_call.obj.default_web_entrypoint = "http"
    /\ build_call.obj.default_websecure_entrypoint = "https"
    /\ build_call.obj.default_tls_resolver = "lower"

---------------------------------------------------------------------------
(* Properties of load_traefik_config (LoadSpec) *)

\* the loader the extension of each path selects, case ignored ("" for none)
ExpectedLoader ==
    [path \in ConfigPaths |->
        CASE path \in {"traefik.yml", "etc/Traefik.YAML"} -> "yaml"
          [] path \in {"traefik.toml", "Traefik.Toml"} -> "toml"
          [] OTHER -> ""]

C23_WitnessUnsupported ==
    /\ load_call.called
    /\ load_call.path = "/path/to/config.json"
    /\ load_call.file.kind = "mapping"
    /\ load_call.exc = "NoInformationException"

C23_WitnessLoaded ==
    /\ load_call.called
    /\ load_call.path = "Traefik.Toml"
    /\ load_call.obj.default_tls_resolver = "letsencrypt"

---------------------------------------------------------------------------
(* Properties of print_labels (PrintSpec) *)

\* the pairs with a non-empty label list, in input order
Printable == SelectSeq(print_call.labels, LAMBDA pair : pair.label_list # <<>>)

\* C24: print_labels takes the pairs in input order and prints, for each pair
\* with a non-empty label list, the START marker of its title, the formatted
\* labels, the END marker of the same title, in that order; a pair with an
\* empty label list prints nothing (a title that comes only with empty lists
\* is nowhere in the output), and an empty input prints nothing.
C24_PrintOrder ==
    print_call.called =>
        /\ Len(print_call.stdout) = 3 * Len(Printable)
        /\ \A k \in 1..Len(Printable) :
             /\ print_call.stdout[3 * k - 2]
                  = "--START GENERATED LABELS FOR '" \o Printable[k].title \o "'--" \o NL
             /\ print_call.stdout[3 * k - 1] = Format(print_call.format, Printable[k].label_list)
             /\ print_call.stdout[3 * k]
                  = "--END GENERATED LABELS FOR '" \o Printable[k].title \o "'--" \o NL
        /\ \A i \in 1..Len(print_call.labels) :
             (\A j \in 1..Len(print_call.labels) :
                print_call.labels[j].title = print_call.labels[i].title
                    => print_call.labels[j].label_list = <<>>)
             => \A k \in 1..Len(print_call.stdout) :
                    ~Contains(print_call.stdout[k], print_call.labels[i].title)
        /\ print_call.labels = <<>> => print_call.stdout = <<>>

C24_Witness ==
    /\ print_call.called
    /\ Len(print_call.labels) = 3
    /\ print_call.labels[1].title = "app1" /\ print_call.labels[1].label_list # <<>>
    /\ print_call.labels[2].title = "app2" /\ print_call.labels[2].label_list = <<>>
    /\ print_call.labels[3].title = "app3" /\ print_call.labels[3].label_list # <<>>
    /\ Len(print_call.stdout) = 6
    /\ Contains(print_call.stdout[4], "START GENERATED LABELS FOR 'app3'")

---------------------------------------------------------------------------
(* Properties of gen_label_set_from_compose (ComposeSpec) *)

\* the position of the service selected: the only one, or the one the user
\* names, the first by default (0 when the answer selects none)
SelectedIndex ==
    IF Len(compose_call.file.services) = 1 THEN 1
    ELSE IF compose_call.answer = "" THEN 1
    ELSE IF compose_call.answer = "2" /\ Len(compose_call.file.services) >= 2 THEN 2
    ELSE 0

\* C25: gen_label_set_from_compose fails with NoInformationException when the
\* content is empty or not a mapping, has no "services" key, has an empty
\* services map, when the selected service definition is not a mapping, and
\* when it has neither "image" nor "build"; it fails with NotImplementedError
\* when the selected service has a "build" key; no label set is returned in
\* any of these cases.
C25_ComposeErrors ==
    (compose_call.called /\ compose_call.file.kind # "missing") =>
        IF \/ compose_call.file.kind # "mapping"
           \/ ~compose_call.file.has_services
           \/ Len(compose_call.file.services) = 0
        THEN compose_call.exc = "NoInformationException" /\ ~compose_call.returned
        ELSE SelectedIndex # 0 =>
                LET service == compose_call.file.services[SelectedIndex]
                IN  /\ service.kind # "mapping"
                        => compose_call.exc = "NoInformationException" /\ ~compose_call.returned
                    /\ (service.kind = "mapping" /\ ~service.has_build /\ ~service.has_image)
                        => compose_call.exc = "NoInformationException" /\ ~compose_call.returned
                    /\ (service.kind = "mapping" /\ service.has_build)
                        => compose_call.exc = "NotImplementedError" /\ ~compose_call.returned

---------------------------------------------------------------------------
(* Properties of Loader (LoaderSpec) *)

\* C29: under every interleaving of the animation thread with the thread
\* that leaves the with block, once stop() has printed its final line (end,
\* or errend when the block raised) no spinner frame is printed after it, and
\* the animation thread ends only after stop() has set done.
C29_NoFrameAfterFinal ==
    /\ \A i, j \in 1..Len(loader.terminal) :
         (i < j /\ loader.terminal[i] \in {"end", "errend"}) => loader.terminal[j] # "frame"
    /\ loader.animate = "ended" => loader.done
    /\ \A i \in 1..Len(loader.terminal) :
         /\ loader.terminal[i] = "end" => ~loader.error
         /\ loader.terminal[i] = "errend" => loader.error

---------------------------------------------------------------------------
(* Properties of labels_from_compose_files (FilesSpec) *)

\* the call has ended: it returned, or an exception left it
FilesEnded == files_call.returned \/ files_call.exc # ""

\* the label sets of the files that succeed, in input order
Succeeded ==
    LET ok == SelectSeq([i \in 1..Len(files_call.files) |->
                            [filepath |-> files_call.files[i], outcome |-> files_call.outcomes[i]]],
                        LAMBDA f : f.outcome = "labels")
    IN  [i \in 1..Len(ok) |-> FileLabels(ok[i].filepath)]

\* every file raises at most FileNotFoundError or NoInformationException
OnlyCaught ==
    \A i \in 1..Len(files_call.files) :
        files_call.outcomes[i] \in {"labels", "FileNotFoundError", "NoInformationException"}

\* C30 as stated: every file of the list is attempted exactly once, in order;
\* a FileNotFoundError or NoInformationException for one file is reported and
\* the remaining files are still processed; the list returned holds exactly
\* the label sets of the files that succeeded, in input order.
C30_EveryFileAttempted ==
    FilesEnded =>
        /\ files_call.attempts = files_call.files
        /\ files_call.returned
        /\ files_call.labels = Succeeded

\* C30 amended: the files are attempted in order, each at most once; a
\* FileNotFoundError or NoInformationException is reported and the loop goes
\* on; when no file raises another exception every file is attempted and the
\* list returned holds exactly the label sets of the files that succeeded, in
\* input order; another exception (NotImplementedError for a service with a
\* build key) leaves the call at once: the files after it are not attempted
\* and nothing is returned.
C30_AttemptedUntilUncaught ==
    /\ files_call.attempts = SubSeq(files_call.files, 1, Len(files_call.attempts))
    /\ Len(files_call.printed)
         = Cardinality({ i \in 1..Len(files_call.attempts) :
                files_call.outcomes[i] \in {"FileNotFoundError", "NoInformationException"} })
    /\ \A i \in 1..Len(files_call.attempts) :
         files_call.outcomes[i] \in {"FileNotFoundError", "NoInformationException"}
            => files_call.pc > i /\ (files_call.exc # "" => Len(files_call.attempts) > i)
    /\ files_call.returned
         => /\ files_call.attempts = files_call.files
            /\ files_call.labels = Succeeded
            /\ OnlyCaught
    /\ files_call.exc # ""
         => /\ ~files_call.returned
            /\ files_call.exc = files_call.outcomes[Len(files_call.attempts)]
            /\ files_call.exc \notin {"FileNotFoundError", "NoInformationException"}
    /\ (OnlyCaught /\ files_call.pc > Len(files_call.files))
         => files_call.attempts = files_call.files /\ files_call.exc = ""

C30_Witness ==
    /\ files_call.returned
    /\ Len(files_call.files) = 3
    /\ files_call.outcomes = <<"FileNotFoundError", "labels", "NoInformationException">>
    /\ files_call.attempts = files_call.files
    /\ Len(files_call.labels) = 1
    /\ files_call.labels[1].title = "b.yaml"
    /\ Len(files_call.printed) = 2

C30_WitnessUncaught ==
    /\ files_call.exc = "NotImplementedError"
    /\ Len(files_call.files) = 3
    /\ Len(files_call.attempts) = 2

---------------------------------------------------------------------------
(* Properties of main (MainSpec) *)

\* the run has ended: main returned, or an exception left it
MainEnded == main_call.pc \in {"returned", "raised"}

Handlers == {"labels_from_user", "labels_from_container", "labels_from_compose_files"}

\* the calls of handlers main has made, in order
HandlerCalls == SelectSeq(main_call.calls, LAMBDA c : c.fn \in Handlers)

Called(fn) == \E i \in 1..Len(main_call.calls) : main_call.calls[i].fn = fn

Printed(line) == \E i \in 1..Len(main_call.stdout) : main_call.stdout[i] = line

\* the mode of the command line by the stated priority: -i, then -c NAME,
\* then the Compose files
Priority ==
    CASE main_call.args.interactive -> "interactive"
      [] ~main_call.args.interactive /\ Given(main_call.args.container) -> "container"
      [] ~main_call.args.interactive /\ ~Given(main_call.args.container)
            /\ main_call.args.files # <<>> -> "files"
      [] OTHER -> "none"

\* the handler of the mode and the argument the command line gives it
IsCallOf(call, mode) ==
    CASE mode = "interactive" -> call.fn = "labels_from_user"
      [] mode = "container" -> call.fn = "labels_from_container"
                                  /\ call.name = main_call.args.container.value
      [] mode = "files" -> call.fn = "labels_from_compose_files"
                              /\ call.files = main_call.args.files
      [] OTHER -> FALSE

\* --version: the version is printed and nothing is loaded or generated
VersionOnly ==
    /\ main_call.calls = <<>>
    /\ main_call.stdout = <<"Laebelmaker v0.4.1, ">>
    /\ main_call.pc = "returned"

\* the handler of the mode and no other is invoked once; with no mode help is
\* printed and nothing generated; no label sets give the failure message and
\* no print_labels
Generated ==
    IF Priority = "none"
    THEN /\ HandlerCalls = <<>>
         /\ Called("print_help")
         /\ ~Called("print_labels")
         /\ main_call.labels = <<>>
    ELSE /\ Len(HandlerCalls) = 1
         /\ IsCallOf(HandlerCalls[1], Priority)
         /\ ~Called("print_help")
         /\ (main_call.handler.exc = "" /\ main_call.handler.labels = <<>>)
               => Printed("Failed to produce output.") /\ ~Called("print_labels")
         /\ (main_call.handler.exc = "" /\ main_call.handler.labels # <<>>)
               => Called("print_labels") /\ ~Printed("Failed to produce output.")

LoadFailed ==
    /\ ~main_call.args.version
    /\ Given(main_call.args.traefik_config)
    /\ main_call.load = "NoInformationException"

C26_WitnessContainer ==
    /\ main_call.pc = "returned"
    /\ ~main_call.args.interactive
    /\ main_call.args.files = <<"b.yml", "a.yml">>
    /\ HandlerCalls = <<Call("labels_from_container", "mycontainer", <<>>, "TraefikConfig", "")>>
    /\ Printed("Failed to produce output.")

\* files only, in command-line order
C26_WitnessFiles ==
    /\ main_call.pc = "returned"
    /\ HandlerCalls = <<Call("labels_from_compose_files", "", <<"b.yml", "a.yml">>, "None", "")>>
    /\ Called("print_labels")

\* a mode is selected and the config does not load
C26_WitnessLoadFailed ==
    /\ main_call.pc = "returned"
    /\ LoadFailed
    /\ main_call.args.interactive
    /\ HandlerCalls = <<>>

===========================================================================
